---- MODULE Spec2Model ----
(***************************************************************************)
(* Job orchestration kernel of video_auto_cut's web_api: the persistent    *)
(* task queue (task_queue.py), the worker loop (worker/runner.py,          *)
(* services/tasks.py, services/step1.py, services/step2.py), the on-disk   *)
(* job state machine (repository.py), the credit ledger and coupon         *)
(* redemption (repository.py, services/billing.py, scripts/coupon_admin.py)*)
(* and the HTTP handlers that drive them (api/routes.py, services/jobs.py).*)
(*                                                                         *)
(* Transactions opened with BEGIN IMMEDIATE are one atomic step each: the  *)
(* write lock serialises them.  update_job is one step (one meta rewrite   *)
(* plus the marker/error file it touches), except in SpecWrites.           *)
(* Everything in between is                                                *)
(* interleaved freely: the steps of a worker's stage function, the steps   *)
(* of an HTTP handler, and worker crashes.                                 *)
(*                                                                         *)
(* The specifications share the actions: Spec (the job pipeline),         *)
(* SpecCredits (redemptions and STEP1 runs), SpecCoupons (redemptions, the *)
(* operator and the clock), SpecCrash (worker crashes and restarts, with   *)
(* fairness), SpecLive (the pipeline with fairness), SpecAccess (every     *)
(* job endpoint, called by the owner and by a stranger), SpecUpload        *)
(* (uploads of every size, name and probe outcome), SpecCleanup (the       *)
(* pipeline with the clock, the periodic sweep of run_worker_loop and the  *)
(* cleanup at process startup), SpecDownload (one job up to its rendered   *)
(* video and the download of it), SpecWrites (the pipeline with the        *)
(* update_job of a failed task taken file by file) and SpecLoop            *)
(* (run_worker_loop with the exceptions it catches, with fairness).  A     *)
(* cleanup run is one step: it lists its jobs and removes their            *)
(* directories.                                                            *)
(*                                                                         *)
(* The other specifications apply one function to every input of a bounded *)
(* set, held in arg, and keep its result in ret: SpecPaths (the paths a    *)
(* cleanup removes), SpecChapters (the chapters run_step2 stores),         *)
(* SpecAutoEdit (the merge of the two LLM passes of auto-edit), SpecStatus *)
(* (get_job over every job directory), SpecProgress (the progress values   *)
(* run_step2 stores), SpecConfirm (confirm_step1) and SpecLines            *)
(* (build_step1_lines_from_srts).                                          *)
(***************************************************************************)
EXTENDS Integers, Sequences, FiniteSets, TLC

(***************************************************************************)
(* Bounds of the model.                                                    *)
(***************************************************************************)
MaxJobs == 2
MaxTasks == 2
MaxLines == 5
MaxSegments == 2
MaxReports == 3
MaxUpdates == 2
\* MAX_UPLOAD_MB as configured (config.py reads it from the environment).
max_upload_mb == 2
MaxCrashes == 1

JobIds == 1..MaxJobs
Users == {"u1", "u2"}
Codes == {"CPN-A", "CPN-B"}
Workers == {"w1", "w2"}
Reqs == {"r1", "r2"}

NULL == "NULL"

\* config.py: WEB_CLEANUP_BATCH_SIZE
cleanup_batch_size == 10

(***************************************************************************)
(* constants.py                                                            *)
(***************************************************************************)
TASK_STATUS_QUEUED == "QUEUED"
TASK_STATUS_RUNNING == "RUNNING"
TASK_STATUS_SUCCEEDED == "SUCCEEDED"
TASK_STATUS_FAILED == "FAILED"
TASK_TYPE_STEP1 == "STEP1"
TASK_TYPE_STEP2 == "STEP2"
TASK_TYPE_RENDER == "RENDER"

JOB_STATUS_CREATED == "CREATED"
JOB_STATUS_UPLOAD_READY == "UPLOAD_READY"
JOB_STATUS_STEP1_RUNNING == "STEP1_RUNNING"
JOB_STATUS_STEP1_READY == "STEP1_READY"
JOB_STATUS_STEP1_CONFIRMED == "STEP1_CONFIRMED"
JOB_STATUS_STEP2_RUNNING == "STEP2_RUNNING"
JOB_STATUS_STEP2_READY == "STEP2_READY"
JOB_STATUS_STEP2_CONFIRMED == "STEP2_CONFIRMED"
JOB_STATUS_SUCCEEDED == "SUCCEEDED"
JOB_STATUS_FAILED == "FAILED"

PROGRESS_UPLOAD_READY == 10
PROGRESS_STEP1_RUNNING == 30
PROGRESS_STEP1_READY == 35
PROGRESS_STEP1_CONFIRMED == 45
PROGRESS_STEP2_RUNNING == 60
PROGRESS_STEP2_READY == 75
PROGRESS_STEP2_CONFIRMED == 80
PROGRESS_SUCCEEDED == 100

USER_STATUS_PENDING_COUPON == "PENDING_COUPON"
USER_STATUS_ACTIVE == "ACTIVE"
STATUS_ACTIVE == "ACTIVE"
STATUS_DISABLED == "DISABLED"

(***************************************************************************)
(* Exception texts (services/step1.py, services/step2.py, tasks.py).  The  *)
(* Chinese texts of the source are written in ASCII: INSUFFICIENT is the   *)
(* text run_step1 raises for a missing credit (it contains the marker      *)
(* _is_insufficient_credit_error looks for), STAGE_ERROR stands for the    *)
(* raw text of a stage driver's failure, NEUTRAL_MESSAGE for the fixed     *)
(* text of _public_task_error_message.                                     *)
(***************************************************************************)
INSUFFICIENT == "insufficient credits, redeem a coupon and retry"
AUDIO_MISSING == "upload audio missing for step1"
STAGE_ERROR == "stage driver error"
STEP1_SRT_MISSING == "final_step1.srt missing for step2"
NEUTRAL_MESSAGE == "task failed, please retry"

VARIABLES
    queue,      \* queue_tasks: row i has task_id = i
    jobs,       \* the job directories under WORK_DIR/jobs
    ledger,     \* credit_ledger: row i has entry_id = i
    coupons,    \* coupon_codes
    users,      \* users
    workers,    \* the worker processes and where each is in its loop
    reqs,       \* the /step1/run and /step2/run requests in flight, per client
    resp,       \* the last HTTP response sent, when responses are observed
    observe,    \* whether resp records the responses (fixed by Init)
    made,       \* the number of job ids create_job has drawn so far
    arg,        \* the input of the function under check (function specifications)
    ret,        \* <<>> before the call, <<what the function returned for arg>> after it
    claims,     \* claims[t]: how many claim_next_task calls returned task t
    execs,      \* execs[t]: how many times a stage function was started for t
    crashes     \* worker crashes so far

vars == <<queue, jobs, ledger, coupons, users, workers, reqs, resp, observe, made, arg, ret,
          claims, execs, crashes>>

Max(S) == CHOOSE x \in S : \A y \in S : y <= x
Min(S) == CHOOSE x \in S : \A y \in S : x <= y

(***************************************************************************)
(* task_queue.py                                                           *)
(***************************************************************************)
TaskRow(job_id, task_type) ==
    [job_id |-> job_id, task_type |-> task_type,
     status |-> TASK_STATUS_QUEUED, error_message |-> NULL]

\* SELECT task_id ... WHERE job_id = ? AND task_type = ? AND status IN (QUEUED, RUNNING)
LiveRows(q, job_id, task_type) ==
    {i \in 1..Len(q) : /\ q[i].job_id = job_id
                       /\ q[i].task_type = task_type
                       /\ q[i].status \in {TASK_STATUS_QUEUED, TASK_STATUS_RUNNING}}

\* enqueue_task without the coalescing SELECT: always inserts.
enqueue_task_always_inserts(q, job_id, task_type) ==
    [queue |-> Append(q, TaskRow(job_id, task_type)), task_id |-> Len(q) + 1]

enqueue_task(q, job_id, task_type) ==
    LET existing == LiveRows(q, job_id, task_type) IN
    IF existing # {}
    THEN [queue |-> q, task_id |-> Max(existing)]
    ELSE [queue |-> Append(q, TaskRow(job_id, task_type)), task_id |-> Len(q) + 1]

\* SELECT ... WHERE status = QUEUED ORDER BY task_id ASC LIMIT 1
QueuedRows(q) == {i \in 1..Len(q) : q[i].status = TASK_STATUS_QUEUED}

\* claim_next_task whose UPDATE is lost: the row is returned but stays QUEUED.
claim_next_task_no_update(q) ==
    IF QueuedRows(q) = {}
    THEN [queue |-> q, task_id |-> 0]
    ELSE [queue |-> q, task_id |-> Min(QueuedRows(q))]

\* claim_next_task that also picks FAILED rows up again.
claim_next_task_retries_failed(q) ==
    LET rows == {i \in 1..Len(q) : q[i].status \in {TASK_STATUS_QUEUED, TASK_STATUS_FAILED}} IN
    IF rows = {}
    THEN [queue |-> q, task_id |-> 0]
    ELSE LET task_id == Min(rows) IN
         [queue |-> [q EXCEPT ![task_id].status = TASK_STATUS_RUNNING,
                              ![task_id].error_message = NULL],
          task_id |-> task_id]

\* claim_next_task with ORDER BY task_id DESC.
claim_next_task_newest_first(q) ==
    IF QueuedRows(q) = {}
    THEN [queue |-> q, task_id |-> 0]
    ELSE LET task_id == Max(QueuedRows(q)) IN
         [queue |-> [q EXCEPT ![task_id].status = TASK_STATUS_RUNNING,
                              ![task_id].error_message = NULL],
          task_id |-> task_id]

\* task_id = 0 stands for the None result.
claim_next_task(q) ==
    IF QueuedRows(q) = {}
    THEN [queue |-> q, task_id |-> 0]
    ELSE LET task_id == Min(QueuedRows(q)) IN
         [queue |-> [q EXCEPT ![task_id].status = TASK_STATUS_RUNNING,
                              ![task_id].error_message = NULL],
          task_id |-> task_id]

set_task_succeeded(q, task_id) ==
    [q EXCEPT ![task_id].status = TASK_STATUS_SUCCEEDED,
              ![task_id].error_message = NULL]

\* set_task_failed whose UPDATE matches no row.
set_task_failed_lost(q, task_id, error_message) == q

set_task_failed(q, task_id, error_message) ==
    [q EXCEPT ![task_id].status = TASK_STATUS_FAILED,
              ![task_id].error_message = error_message]

(***************************************************************************)
(* repository.py: users, coupons and the credit ledger                     *)
(***************************************************************************)
JobKey(job_id) == [kind |-> "job", job_id |-> job_id, code |-> NULL]
CouponKey(code) == [kind |-> "coupon", job_id |-> 0, code |-> code]

RECURSIVE SumDelta(_, _, _)
SumDelta(l, user_id, i) ==
    IF i = 0 THEN 0
    ELSE SumDelta(l, user_id, i - 1) + (IF l[i].user_id = user_id THEN l[i].delta ELSE 0)

\* SELECT COALESCE(SUM(delta), 0) FROM credit_ledger WHERE user_id = ?
get_credit_balance(l, user_id) == SumDelta(l, user_id, Len(l))

\* SELECT entry_id FROM credit_ledger WHERE idempotency_key = ?
RowsWithKey(l, key) == {i \in 1..Len(l) : l[i].idempotency_key = key}

\* INSERT OR IGNORE INTO credit_ledger: the UNIQUE idempotency_key ignores a duplicate.
InsertOrIgnore(l, row) ==
    IF RowsWithKey(l, row.idempotency_key) # {} THEN l ELSE Append(l, row)

\* billing.has_available_credits
has_available_credits(l, user_id, required) ==
    get_credit_balance(l, user_id) >= (IF required < 1 THEN 1 ELSE required)

\* consume_step1_credit that trusts run_step1's earlier read-only check and
\* does not look at the balance inside the transaction.
consume_step1_credit_no_balance_check(l, user_id, job_id) ==
    IF RowsWithKey(l, JobKey(job_id)) # {}
    THEN [ledger |-> l, raised |-> NULL, consumed |-> FALSE]
    ELSE [ledger |-> Append(l, [user_id |-> user_id, delta |-> -1,
                                reason |-> "JOB_STEP1_SUCCESS",
                                idempotency_key |-> JobKey(job_id)]),
          raised |-> NULL, consumed |-> TRUE]

\* consume_step1_credit without the idempotency lookup and with a plain INSERT.
consume_step1_credit_no_idempotency(l, user_id, job_id) ==
    IF get_credit_balance(l, user_id) < 1
    THEN [ledger |-> l, raised |-> "INSUFFICIENT_CREDITS", consumed |-> FALSE]
    ELSE [ledger |-> Append(l, [user_id |-> user_id, delta |-> -1,
                                reason |-> "JOB_STEP1_SUCCESS",
                                idempotency_key |-> JobKey(job_id)]),
          raised |-> NULL, consumed |-> TRUE]

\* One BEGIN IMMEDIATE transaction.
consume_step1_credit(l, user_id, job_id) ==
    IF RowsWithKey(l, JobKey(job_id)) # {}
    THEN [ledger |-> l, raised |-> NULL, consumed |-> FALSE]
    ELSE IF get_credit_balance(l, user_id) < 1
    THEN [ledger |-> l, raised |-> "INSUFFICIENT_CREDITS", consumed |-> FALSE]
    ELSE LET inserted == InsertOrIgnore(l, [user_id |-> user_id, delta |-> -1,
                                            reason |-> "JOB_STEP1_SUCCESS",
                                            idempotency_key |-> JobKey(job_id)]) IN
         [ledger |-> inserted, raised |-> NULL, consumed |-> Len(inserted) > Len(l)]

\* normalize_code: strip().upper(), on the raw codes the clients send.
RawCodes == {"CPN-A", " cpn-a ", "CPN-B", "cpn-b", "CPN-X", "  "}
normalize_code(raw) ==
    CASE raw \in {"CPN-A", " cpn-a "} -> "CPN-A"
      [] raw \in {"CPN-B", "cpn-b"} -> "CPN-B"
      [] raw = "CPN-X" -> "CPN-X"
      [] OTHER -> ""

\* _assert_not_expired_or_invalid: expires_at is NULL, or lies in the future
\* or in the past of the clock.
_assert_not_expired_or_invalid(expires_at) ==
    IF expires_at = "PAST" THEN "COUPON_CODE_EXPIRED" ELSE NULL

\* The exception _assert_coupon_usable_in_tx raises, NULL when it returns.
_assert_coupon_usable_in_tx(coupon) ==
    IF coupon.used_count >= 1 THEN "COUPON_CODE_EXHAUSTED"
    ELSE IF coupon.status # STATUS_ACTIVE THEN "COUPON_CODE_INVALID"
    ELSE _assert_not_expired_or_invalid(coupon.expires_at)

\* A users row; activated_at = 0 stands for NULL, and a timestamp is the
\* entry_id of the ledger row written in the same transaction.
AbsentUser == [status |-> "ABSENT", activated_at |-> 0]
PendingUser == [status |-> USER_STATUS_PENDING_COUPON, activated_at |-> 0]

\* ensure_user as an upsert: the row is written again on every request.
ensure_user_replace(us, user_id) == [us EXCEPT ![user_id] = PendingUser]

\* ensure_user: INSERT the row as PENDING_COUPON when it is missing.
ensure_user(us, user_id) ==
    IF us[user_id].status = "ABSENT" THEN [us EXCEPT ![user_id] = PendingUser] ELSE us

\* get_user_profile: status and activated_at as GET /me shows them.
get_user_profile(us, user_id) == ensure_user(us, user_id)[user_id]

\* _activate_user_in_tx
_activate_user_in_tx(us, user_id, now) ==
    [us EXCEPT ![user_id] = [status |-> USER_STATUS_ACTIVE, activated_at |-> now]]

Unchanged(us, cs, l, flag) ==
    [users |-> us, coupons |-> cs, ledger |-> l, raised |-> flag, granted |-> 0]

\* redeem_coupon_code with no usability check and an unconditional UPDATE:
\* a used coupon can be redeemed again under a fresh ledger key.
redeem_coupon_code_unchecked(us, cs, l, user_id, code) ==
    LET normalized == normalize_code(code) IN
    IF normalized = "" THEN Unchanged(us, cs, l, "ValueError")
    ELSE IF normalized \notin DOMAIN cs THEN Unchanged(us, cs, l, "COUPON_CODE_INVALID")
    ELSE [users |-> _activate_user_in_tx(ensure_user(us, user_id), user_id, Len(l) + 1),
          coupons |-> [cs EXCEPT ![normalized].used_count = @ + 1,
                                 ![normalized].status = STATUS_DISABLED],
          ledger |-> Append(l, [user_id |-> user_id, delta |-> cs[normalized].credits,
                                reason |-> "COUPON_REDEEM",
                                idempotency_key |-> CouponKey(normalized)]),
          raised |-> NULL, granted |-> cs[normalized].credits]

\* redeem_coupon_code that reserves the coupon before it looks at expires_at
\* and commits where it should roll back.
redeem_coupon_code_reserves_expired(us, cs, l, user_id, code) ==
    LET normalized == normalize_code(code) IN
    IF normalized = "" THEN Unchanged(us, cs, l, "ValueError")
    ELSE IF normalized \notin DOMAIN cs THEN Unchanged(us, cs, l, "COUPON_CODE_INVALID")
    ELSE LET coupon == cs[normalized]
             usable == _assert_coupon_usable_in_tx(coupon) IN
         IF usable = "COUPON_CODE_EXPIRED"
         THEN [Unchanged(us, cs, l, usable) EXCEPT
                 !.coupons = [cs EXCEPT ![normalized].used_count = 1,
                                        ![normalized].status = STATUS_DISABLED]]
         ELSE IF usable # NULL THEN Unchanged(us, cs, l, usable)
         ELSE IF RowsWithKey(l, CouponKey(normalized)) # {}
         THEN Unchanged(us, cs, l, "COUPON_CODE_EXHAUSTED")
         ELSE [users |-> _activate_user_in_tx(ensure_user(us, user_id), user_id, Len(l) + 1),
               coupons |-> [cs EXCEPT ![normalized].used_count = 1,
                                      ![normalized].status = STATUS_DISABLED],
               ledger |-> Append(l, [user_id |-> user_id, delta |-> coupon.credits,
                                     reason |-> "COUPON_REDEEM",
                                     idempotency_key |-> CouponKey(normalized)]),
               raised |-> NULL, granted |-> coupon.credits]

\* One BEGIN IMMEDIATE transaction; every failure rolls it back.
redeem_coupon_code(us, cs, l, user_id, code) ==
    LET normalized == normalize_code(code) IN
    IF normalized = "" THEN Unchanged(us, cs, l, "ValueError")
    ELSE IF normalized \notin DOMAIN cs THEN Unchanged(us, cs, l, "COUPON_CODE_INVALID")
    ELSE LET coupon == cs[normalized]
             usable == _assert_coupon_usable_in_tx(coupon) IN
         IF usable # NULL THEN Unchanged(us, cs, l, usable)
         ELSE IF coupon.credits <= 0 THEN Unchanged(us, cs, l, "COUPON_CODE_INVALID")
         ELSE IF ~(coupon.status = STATUS_ACTIVE /\ coupon.used_count = 0)
         THEN Unchanged(us, cs, l, "COUPON_CODE_EXHAUSTED")
         ELSE IF RowsWithKey(l, CouponKey(normalized)) # {}
         THEN Unchanged(us, cs, l, "COUPON_CODE_EXHAUSTED")
         ELSE [users |-> _activate_user_in_tx(ensure_user(us, user_id), user_id, Len(l) + 1),
               coupons |-> [cs EXCEPT ![normalized].used_count = 1,
                                      ![normalized].status = STATUS_DISABLED],
               ledger |-> Append(l, [user_id |-> user_id, delta |-> coupon.credits,
                                     reason |-> "COUPON_REDEEM",
                                     idempotency_key |-> CouponKey(normalized)]),
               raised |-> NULL, granted |-> coupon.credits]

\* billing.redeem_coupon_for_user: the error code of the response, "OK" on success.
redeem_coupon_for_user_code(raised) ==
    CASE raised = NULL -> "OK"
      [] raised = "COUPON_CODE_EXPIRED" -> "COUPON_CODE_EXPIRED"
      [] raised = "COUPON_CODE_EXHAUSTED" -> "COUPON_CODE_EXHAUSTED"
      [] OTHER -> "COUPON_CODE_INVALID"

\* scripts/coupon_admin.py cmd_disable: UPDATE coupon_codes SET status = DISABLED
cmd_disable(cs, code) == [cs EXCEPT ![code].status = STATUS_DISABLED]

(***************************************************************************)
(* repository.py: the job directory.  A job is the content of              *)
(* WORK_DIR/jobs/<job_id>: job.meta.json (exists, owner_user_id, status,   *)
(* progress), job.error.json (error), the uploaded file under input/       *)
(* (input), step1/final_step1.json and .srt (final_step1), step1/.confirmed*)
(* step2/final_topics.json (final_topics), step2/.confirmed and            *)
(* render/output.mp4.  updated_at of job.meta.json is kept relative to the *)
(* clock: RECENT while it lies less than cleanup_ttl_seconds in the past,  *)
(* EXPIRED from then on.                                                   *)
(***************************************************************************)
NoError == [code |-> NULL, message |-> NULL]
NONE_PROGRESS == 0 - 1

NoJob ==
    [exists |-> FALSE, owner_user_id |-> NULL, status |-> NULL, progress |-> 0,
     updated_at |-> NULL,
     error |-> NoError, input |-> "NONE", final_step1 |-> FALSE,
     step1_confirmed |-> FALSE, final_topics |-> FALSE, step2_confirmed |-> FALSE,
     output_mp4 |-> FALSE]

JobStatuses ==
    {JOB_STATUS_CREATED, JOB_STATUS_UPLOAD_READY, JOB_STATUS_STEP1_RUNNING,
     JOB_STATUS_STEP1_READY, JOB_STATUS_STEP1_CONFIRMED, JOB_STATUS_STEP2_RUNNING,
     JOB_STATUS_STEP2_READY, JOB_STATUS_STEP2_CONFIRMED, JOB_STATUS_SUCCEEDED,
     JOB_STATUS_FAILED}

\* _normalize_files: the slots _infer_job_status and the stages read.
\* input = "AUDIO" is an uploaded file named audio.<ext> (found by
\* _existing_audio_path and _existing_video_path), "VIDEO" any other upload.
_normalize_files(job) ==
    [video_path |-> job.input # "NONE",
     audio_path |-> job.input = "AUDIO",
     final_step1_srt_path |-> job.final_step1,
     final_topics_path |-> job.final_topics,
     final_video_path |-> job.output_mp4]

\* _infer_job_status that looks at step1/.confirmed before step2/final_topics.json.
_infer_job_status_step1_first(job) ==
    LET files == _normalize_files(job) IN
    IF job.error # NoError THEN JOB_STATUS_FAILED
    ELSE IF files.final_video_path THEN JOB_STATUS_SUCCEEDED
    ELSE IF job.step2_confirmed THEN JOB_STATUS_STEP2_CONFIRMED
    ELSE IF job.step1_confirmed THEN JOB_STATUS_STEP1_CONFIRMED
    ELSE IF files.final_topics_path THEN JOB_STATUS_STEP2_READY
    ELSE IF job.final_step1 THEN JOB_STATUS_STEP1_READY
    ELSE IF files.video_path \/ files.audio_path THEN JOB_STATUS_UPLOAD_READY
    ELSE JOB_STATUS_CREATED

_infer_job_status(job) ==
    LET files == _normalize_files(job) IN
    IF job.error # NoError THEN JOB_STATUS_FAILED
    ELSE IF files.final_video_path THEN JOB_STATUS_SUCCEEDED
    ELSE IF job.step2_confirmed THEN JOB_STATUS_STEP2_CONFIRMED
    ELSE IF files.final_topics_path THEN JOB_STATUS_STEP2_READY
    ELSE IF job.step1_confirmed THEN JOB_STATUS_STEP1_CONFIRMED
    ELSE IF job.final_step1 THEN JOB_STATUS_STEP1_READY
    ELSE IF files.video_path \/ files.audio_path THEN JOB_STATUS_UPLOAD_READY
    ELSE JOB_STATUS_CREATED

_progress_for_status(status) ==
    CASE status = JOB_STATUS_CREATED -> 0
      [] status = JOB_STATUS_UPLOAD_READY -> 10
      [] status = JOB_STATUS_STEP1_RUNNING -> 30
      [] status = JOB_STATUS_STEP1_READY -> 35
      [] status = JOB_STATUS_STEP1_CONFIRMED -> 45
      [] status = JOB_STATUS_STEP2_RUNNING -> 60
      [] status = JOB_STATUS_STEP2_READY -> 75
      [] status = JOB_STATUS_STEP2_CONFIRMED -> 80
      [] status = JOB_STATUS_SUCCEEDED -> 100
      [] OTHER -> 0

\* _normalize_meta_status: NULL for None and for a status outside the allowed set.
_normalize_meta_status(value) == IF value \in JobStatuses THEN value ELSE NULL

_effective_status(meta_status, inferred_status) ==
    IF /\ meta_status = JOB_STATUS_STEP1_RUNNING
       /\ inferred_status \in {JOB_STATUS_CREATED, JOB_STATUS_UPLOAD_READY}
    THEN JOB_STATUS_STEP1_RUNNING
    ELSE IF /\ meta_status = JOB_STATUS_STEP2_RUNNING
            /\ inferred_status \in {JOB_STATUS_STEP1_CONFIRMED}
    THEN JOB_STATUS_STEP2_RUNNING
    ELSE IF /\ meta_status = JOB_STATUS_FAILED
            /\ inferred_status \in {JOB_STATUS_CREATED, JOB_STATUS_UPLOAD_READY,
                                    JOB_STATUS_STEP1_RUNNING, JOB_STATUS_STEP2_RUNNING}
    THEN JOB_STATUS_FAILED
    ELSE inferred_status

NotFound == [found |-> FALSE, status |-> NULL, progress |-> 0, error |-> NoError]

Clamp100(p) == IF p < 0 THEN 0 ELSE IF p > 100 THEN 100 ELSE p

\* The job view get_job builds from the directory.
JobView(job) ==
    LET inferred_status == _infer_job_status(job)
        meta_status == _normalize_meta_status(job.status)
        status == _effective_status(meta_status, inferred_status) IN
    [found |-> TRUE,
     status |-> status,
     progress |-> IF meta_status = status THEN Clamp100(job.progress)
                  ELSE _progress_for_status(status),
     error |-> IF job.error.code # NULL THEN job.error ELSE NoError]

\* get_job that does not compare the owner.
get_job_any_owner(job, owner_user_id) ==
    IF ~job.exists THEN NotFound ELSE JobView(job)

\* get_job(job_id, owner_user_id=...): NotFound stands for None.
get_job(job, owner_user_id) ==
    IF ~job.exists THEN NotFound
    ELSE IF owner_user_id # NULL /\ job.owner_user_id # owner_user_id THEN NotFound
    ELSE JobView(job)

get_job_owner_user_id(job) == IF job.exists THEN job.owner_user_id ELSE NULL

\* create_job(job_id, JOB_STATUS_CREATED, owner_user_id)
create_job(owner_user_id) ==
    [NoJob EXCEPT !.exists = TRUE, !.owner_user_id = owner_user_id,
                  !.status = JOB_STATUS_CREATED,
                  !.progress = _progress_for_status(JOB_STATUS_CREATED),
                  !.updated_at = "RECENT"]

\* update_job(job_id, status=, progress=, error_code=, error_message=);
\* NULL and NONE_PROGRESS stand for the None defaults.
update_job(job, status, progress, error_code, error_message) ==
    IF ~job.exists THEN job
    ELSE LET normalized_status == _normalize_meta_status(status)
             meta == [job EXCEPT
                        !.status = IF normalized_status # NULL THEN normalized_status ELSE @,
                        !.progress = IF progress # NONE_PROGRESS THEN Clamp100(progress) ELSE @,
                        !.updated_at = "RECENT"] IN
         IF normalized_status = JOB_STATUS_STEP1_CONFIRMED
         THEN [meta EXCEPT !.step1_confirmed = TRUE]
         ELSE IF normalized_status = JOB_STATUS_STEP2_CONFIRMED
         THEN [meta EXCEPT !.step2_confirmed = TRUE]
         ELSE IF normalized_status = JOB_STATUS_FAILED /\ error_code # NULL
         THEN [meta EXCEPT !.error = [code |-> error_code, message |-> error_message]]
         ELSE IF normalized_status \in (JobStatuses \ {JOB_STATUS_FAILED})
         THEN [meta EXCEPT !.error = NoError]
         ELSE meta

\* update_job as far as its write of job.meta.json: the marker and
\* job.error.json are as they were.
update_job_meta(job, status, progress) ==
    LET written == update_job(job, status, progress, NULL, NULL) IN
    [written EXCEPT !.error = job.error, !.step1_confirmed = job.step1_confirmed,
                    !.step2_confirmed = job.step2_confirmed]

\* touch_job: updated_at = now_iso()
touch_job(job) == IF ~job.exists THEN job ELSE [job EXCEPT !.updated_at = "RECENT"]

(***************************************************************************)
(* repository.py and services/cleanup.py: the cleanup of job directories.  *)
(* js is the content of WORK_DIR/jobs.                                     *)
(***************************************************************************)
_has_artifacts(files) ==
    \/ files.video_path \/ files.audio_path \/ files.final_step1_srt_path
    \/ files.final_topics_path \/ files.final_video_path

_is_cleanup_candidate_status(status) ==
    status \in {JOB_STATUS_SUCCEEDED, JOB_STATUS_STEP2_CONFIRMED}

\* The test both listings apply to a directory of WORK_DIR/jobs.
CleanupCandidate(job) ==
    /\ job.exists
    /\ _is_cleanup_candidate_status(_normalize_meta_status(job.status))
    /\ _has_artifacts(_normalize_files(job))

\* pairs[:max(1, limit)] of the pairs sorted by updated_at: every choice of
\* limit candidates that leaves out no older one.
OldestFirst(js, S, limit) ==
    {B \in SUBSET S :
        /\ Cardinality(B) = Min({Cardinality(S), Max({1, limit})})
        /\ \A a \in B, b \in S \ B : ~(js[a].updated_at = "RECENT" /\ js[b].updated_at = "EXPIRED")}

\* list_expired_succeeded_jobs(cutoff, limit) with cutoff = now - ttl.
list_expired_succeeded_jobs(js, limit) ==
    OldestFirst(js, {j \in JobIds : CleanupCandidate(js[j]) /\ js[j].updated_at = "EXPIRED"}, limit)

\* list_succeeded_jobs_with_artifacts(limit): no test of updated_at.
list_succeeded_jobs_with_artifacts(js, limit) ==
    OldestFirst(js, {j \in JobIds : CleanupCandidate(js[j])}, limit)

\* A download that removes the job directory at once.
mark_job_cleanup_now(job) == IF ~job.exists THEN job ELSE NoJob

\* mark_job_cleanup_from_now with cleanup_enabled: touch_job(job_id), so
\* that the job expires cleanup_ttl_seconds from now.
mark_job_cleanup_from_now(job) == touch_job(job)

\* cleanup_job_artifacts as section 4.8 lists its steps: the artifacts go,
\* the manifest and the step data are emptied and the job row is rewritten.
cleanup_job_artifacts_keeps_row(job) ==
    IF ~job.exists THEN job
    ELSE update_job([job EXCEPT !.input = "NONE", !.final_step1 = FALSE,
                                !.final_topics = FALSE, !.output_mp4 = FALSE],
                    JOB_STATUS_SUCCEEDED, PROGRESS_SUCCEEDED, NULL, NULL)

\* cleanup_job_artifacts: get_job_files is None without job.meta.json.
\* Otherwise the declared paths and the job directory itself are removed,
\* job.meta.json with it, so that the upsert_job_files and the update_job
\* that follow find no job and write nothing.
cleanup_job_artifacts(job) == IF ~job.exists THEN job ELSE NoJob

\* The count cleanup_job_artifacts returns: one for every declared slot of
\* ARTIFACT_FIELDS (audio_path is not one of them) and one for the job
\* directory; 0 when get_job_files finds no job.
cleanup_job_artifacts_removed(job) ==
    LET files == _normalize_files(job) IN
    IF ~job.exists THEN 0
    ELSE 1 + Cardinality({field \in {"video_path", "final_step1_srt_path", "final_topics_path",
                                     "final_video_path"} : files[field]})

\* A directory of WORK_DIR/jobs without job.meta.json that holds files.
Orphan_dir(job) == ~job.exists /\ job # NoJob

\* The jobs a cleanup run leaves: those in B cleaned, the orphan
\* directories in O removed.
Cleaned(js, B, O) ==
    [j \in JobIds |-> IF j \in B THEN cleanup_job_artifacts(js[j])
                      ELSE IF j \in O THEN NoJob
                      ELSE js[j]]

\* cleanup_on_startup: every orphan directory, then batch after batch until
\* list_succeeded_jobs_with_artifacts is empty.
cleanup_on_startup(js) ==
    Cleaned(js, {j \in JobIds : CleanupCandidate(js[j])}, {j \in JobIds : Orphan_dir(js[j])})

\* services/render.py run_render once run_render_stage has written
\* render/output.mp4: upsert_job_files(final_video_path) and
\* update_job(SUCCEEDED, PROGRESS_SUCCEEDED).
run_render(job) ==
    update_job([job EXCEPT !.output_mp4 = TRUE], JOB_STATUS_SUCCEEDED, PROGRESS_SUCCEEDED,
               NULL, NULL)

\* tasks._is_insufficient_credit_error: the text contains the marker.
_is_insufficient_credit_error(exc) == exc = INSUFFICIENT

\* _public_task_error_message that passes str(exc) on to the user.
_public_task_error_message_raw(exc) == exc

\* tasks._public_task_error_message
_public_task_error_message(exc) ==
    IF _is_insufficient_credit_error(exc) THEN exc ELSE NEUTRAL_MESSAGE

(***************************************************************************)
(* The state after init_db, init_task_queue_db and the out-of-band seeding *)
(* of the coupons (coupon_admin.py create): no user, no job, no task, an   *)
(* empty ledger, every worker idle in run_worker_loop.                     *)
(***************************************************************************)
IdleWorker ==
    [alive |-> TRUE, pc |-> "idle", task_id |-> 0, job_id |-> 0, task_type |-> NULL,
     owner_user_id |-> NULL, exc |-> NULL]

IdleReq ==
    [pc |-> "idle", user |-> NULL, job_id |-> 0, task_type |-> NULL, zero_balance |-> FALSE]

NoResp ==
    [endpoint |-> NULL, user |-> NULL, job_id |-> 0, coupon |-> NULL,
     http |-> 0, code |-> NULL]

Response(endpoint, user, job_id, coupon, http, code) ==
    [endpoint |-> endpoint, user |-> user, job_id |-> job_id, coupon |-> coupon,
     http |-> http, code |-> code]

SeededCoupons ==
    [c \in Codes |->
        [credits |-> IF c = "CPN-A" THEN 1 ELSE 2,
         used_count |-> 0,
         status |-> STATUS_ACTIVE,
         expires_at |-> IF c = "CPN-A" THEN NULL ELSE "FUTURE"]]

\* The stores and the processes after init_db and init_task_queue_db.
InitStores ==
    /\ queue = <<>>
    /\ jobs = [j \in JobIds |-> NoJob]
    /\ ledger = <<>>
    /\ coupons = SeededCoupons
    /\ users = [u \in Users |-> AbsentUser]
    /\ workers = [w \in Workers |-> IdleWorker]
    /\ reqs = [r \in Reqs |-> IdleReq]
    /\ resp = NoResp
    /\ observe \in BOOLEAN
    /\ made = 0
    /\ claims = [t \in 1..MaxTasks |-> 0]
    /\ execs = [t \in 1..MaxTasks |-> 0]
    /\ crashes = 0

Init ==
    /\ InitStores
    /\ arg = NULL
    /\ ret = <<>>

\* Everything but arg and ret.
stores == <<queue, jobs, ledger, coupons, users, workers, reqs, resp, observe, made, claims, execs,
            crashes>>

\* Idle request slots and idle workers are interchangeable: the first idle one
\* takes the next request or task.
Earlier(x) == IF x = "r2" THEN {"r1"} ELSE IF x = "w2" THEN {"w1"} ELSE {}

\* The response as resp records it.
Observed(response) == IF observe THEN response ELSE resp

\* What GET /jobs/{id} shows its owner.
Reported(j) == get_job(jobs[j], NULL)
Balance(u) == get_credit_balance(ledger, u)

(***************************************************************************)
(* api/routes.py and the services behind it.  Every request first runs     *)
(* auth.require_current_user, which materialises the user (ensure_user).   *)
(***************************************************************************)
\* POST /auth/coupon/redeem
Redeem(u, raw) ==
    LET ensured == ensure_user(users, u)
        res == redeem_coupon_code(ensured, coupons, ledger, u, raw)
        code == redeem_coupon_for_user_code(res.raised) IN
    /\ users' = res.users
    /\ coupons' = res.coupons
    /\ ledger' = res.ledger
    /\ resp' = Observed(Response("redeem", u, 0, normalize_code(raw),
                                 IF code = "OK" THEN 200 ELSE 422, code))
    /\ UNCHANGED <<arg, ret, observe, made, queue, jobs, workers, reqs, claims, execs, crashes>>

\* GET /me: get_user_profile
GetMe(u) ==
    /\ users' = ensure_user(users, u)
    /\ resp' = Observed(Response("me", u, 0, NULL, 200, get_user_profile(users, u).status))
    /\ UNCHANGED <<arg, ret, observe, made, queue, jobs, ledger, coupons, workers, reqs,
                   claims, execs, crashes>>

\* POST /jobs: _assert_user_active, then create_new_job under a fresh job id.
CreateJob(u) ==
    LET ensured == ensure_user(users, u) IN
    /\ users' = ensured
    /\ IF ensured[u].status # USER_STATUS_ACTIVE
       THEN /\ resp' = Observed(Response("create_job", u, 0, NULL, 403, "FORBIDDEN"))
            /\ UNCHANGED <<jobs, made>>
       ELSE /\ made < MaxJobs
            /\ made' = made + 1
            /\ jobs' = [jobs EXCEPT ![made'] = create_job(u)]
            /\ resp' = Observed(Response("create_job", u, made', NULL, 200, NULL))
    /\ UNCHANGED <<arg, ret, observe, queue, ledger, coupons, workers, reqs, claims, execs,
                   crashes>>

\* load_job_or_404 without require_status.
Precondition_no_require_status(endpoint, u, j, allowed) ==
    IF ~get_job(jobs[j], u).found THEN Response(endpoint, u, j, NULL, 404, "NOT_FOUND")
    ELSE NoResp

\* load_job_or_404 and require_status: the error response, NoResp when both pass.
Precondition(endpoint, u, j, allowed) ==
    LET job == get_job(jobs[j], u) IN
    IF ~job.found THEN Response(endpoint, u, j, NULL, 404, "NOT_FOUND")
    ELSE IF job.status \notin allowed
    THEN Response(endpoint, u, j, NULL, 409, "INVALID_STEP_STATE")
    ELSE NoResp

MiB == 1024 * 1024
max_bytes == max_upload_mb * MiB

\* save_uploaded_video's read loop over a body of size bytes, entered with
\* total bytes already counted: TRUE when it raises upload_too_large.
RECURSIVE read_chunks_at_limit(_, _)
read_chunks_at_limit(size, total) ==
    LET chunk == Min({MiB, size - total}) IN
    IF chunk = 0 THEN FALSE
    ELSE IF total + chunk >= max_bytes THEN TRUE
    ELSE read_chunks_at_limit(size, total + chunk)

RECURSIVE read_chunks(_, _)
read_chunks(size, total) ==
    LET chunk == Min({MiB, size - total}) IN
    IF chunk = 0 THEN FALSE
    ELSE IF total + chunk > max_bytes THEN TRUE
    ELSE read_chunks(size, total + chunk)

\* validate_video_extension raises for a file name whose suffix is not a
\* video suffix; "AUDIO" and "VIDEO" name files with one.
validate_video_extension(name) == name \notin {"AUDIO", "VIDEO"}

\* save_uploaded_video: the job directory after it and the error it raises;
\* probed is whether ffprobe finds a video stream in the file.  The target
\* is opened for writing and unlinked again when the size is refused;
\* probe_video_stream runs on the written file.
save_uploaded_video(job, name, size, probed) ==
    LET opened == [job EXCEPT !.input = name]
        unlinked == [opened EXCEPT !.input = "NONE"] IN
    IF validate_video_extension(name)
    THEN [job |-> job, http |-> 422, code |-> "UNSUPPORTED_VIDEO_FORMAT"]
    ELSE IF read_chunks(size, 0)
    THEN [job |-> unlinked, http |-> 413, code |-> "UPLOAD_TOO_LARGE"]
    ELSE IF size <= 0
    THEN [job |-> unlinked, http |-> 409, code |-> "INVALID_STEP_STATE"]
    ELSE IF ~probed
    THEN [job |-> opened, http |-> 422, code |-> "UNSUPPORTED_VIDEO_FORMAT"]
    ELSE [job |-> update_job(opened, JOB_STATUS_UPLOAD_READY, PROGRESS_UPLOAD_READY,
                             NULL, NULL),
          http |-> 200, code |-> NULL]

\* POST /jobs/{id}/upload of size bytes; name is "AUDIO" for a file called
\* audio.<ext>, "VIDEO" for another video file and "OTHER" for a file that
\* has no video suffix.
UploadProbed(u, j, name, size, probed) ==
    LET pre == Precondition("upload", u, j, {JOB_STATUS_CREATED})
        saved == save_uploaded_video(jobs[j], name, size, probed) IN
    /\ users' = ensure_user(users, u)
    /\ IF pre # NoResp
       THEN /\ resp' = Observed(pre)
            /\ UNCHANGED jobs
       ELSE /\ jobs' = [jobs EXCEPT ![j] = saved.job]
            /\ resp' = Observed(Response("upload", u, j, NULL, saved.http, saved.code))
    /\ UNCHANGED <<arg, ret, observe, made, queue, ledger, coupons, workers, reqs, claims,
                   execs, crashes>>

\* The same request with a file ffprobe accepts.
UploadFile(u, j, name, size) == UploadProbed(u, j, name, size, TRUE)

\* The same request with a one-byte file.
Upload(u, j, name) == UploadFile(u, j, name, 1)

RunEndpoint(task_type) == IF task_type = TASK_TYPE_STEP1 THEN "step1_run" ELSE "step2_run"
RunRequires(task_type) ==
    IF task_type = TASK_TYPE_STEP1 THEN {JOB_STATUS_UPLOAD_READY} ELSE {JOB_STATUS_STEP1_CONFIRMED}

\* tasks.queue_job_task: the status and progress it writes for the task type.
queue_job_task_status(task_type) ==
    IF task_type = TASK_TYPE_STEP1 THEN JOB_STATUS_STEP1_RUNNING ELSE JOB_STATUS_STEP2_RUNNING
queue_job_task_progress(task_type) ==
    IF task_type = TASK_TYPE_STEP1 THEN PROGRESS_STEP1_RUNNING ELSE PROGRESS_STEP2_RUNNING

\* POST /jobs/{id}/step1/run and /step2/run, first part: load_job_or_404 and
\* require_status.  zero_balance records whether the owner had no credit then.
RunCheck(r, u, j, task_type) ==
    LET pre == Precondition(RunEndpoint(task_type), u, j, RunRequires(task_type)) IN
    /\ reqs[r].pc = "idle"
    /\ \A x \in Earlier(r) : reqs[x].pc # "idle"
    /\ users' = ensure_user(users, u)
    /\ IF pre # NoResp
       THEN /\ resp' = Observed(pre)
            /\ UNCHANGED reqs
       ELSE /\ reqs' = [reqs EXCEPT ![r] =
                          [pc |-> "enqueue", user |-> u, job_id |-> j,
                           task_type |-> task_type, zero_balance |-> Balance(u) = 0]]
            /\ UNCHANGED resp
    /\ UNCHANGED <<arg, ret, observe, made, queue, jobs, ledger, coupons, workers, claims,
                   execs, crashes>>

\* queue_job_task, first part: enqueue_task (one BEGIN IMMEDIATE transaction).
RunEnqueue(r) ==
    LET res == enqueue_task(queue, reqs[r].job_id, reqs[r].task_type) IN
    /\ reqs[r].pc = "enqueue"
    /\ Len(res.queue) <= MaxTasks
    /\ queue' = res.queue
    /\ reqs' = [reqs EXCEPT ![r].pc = "update"]
    /\ UNCHANGED <<arg, ret, observe, made, jobs, ledger, coupons, users, workers, resp,
                   claims, execs, crashes>>

\* queue_job_task, second part: update_job(status=<stage>_RUNNING), then the response.
RunUpdate(r) ==
    LET j == reqs[r].job_id
        task_type == reqs[r].task_type IN
    /\ reqs[r].pc = "update"
    /\ jobs' = [jobs EXCEPT ![j] = update_job(@, queue_job_task_status(task_type),
                                              queue_job_task_progress(task_type), NULL, NULL)]
    /\ resp' = Observed(Response(RunEndpoint(task_type), reqs[r].user, j, NULL, 200, NULL))
    /\ reqs' = [reqs EXCEPT ![r] = IdleReq]
    /\ UNCHANGED <<arg, ret, observe, made, queue, ledger, coupons, users, workers, claims,
                   execs, crashes>>

\* POST /jobs/{id}/render/run: queue_job_task raises for TASK_TYPE_RENDER.
RenderRun(u, j) ==
    LET pre == Precondition("render_run", u, j, {JOB_STATUS_STEP2_CONFIRMED}) IN
    /\ users' = ensure_user(users, u)
    /\ resp' = Observed(IF pre # NoResp THEN pre
                        ELSE Response("render_run", u, j, NULL, 409, "INVALID_STEP_STATE"))
    /\ UNCHANGED <<arg, ret, observe, made, queue, jobs, ledger, coupons, workers, reqs,
                   claims, execs, crashes>>

\* PUT /jobs/{id}/step1/confirm with a non-empty list of known line ids:
\* confirm_step1 rewrites final_step1.json and .srt and marks the job confirmed.
Step1Confirm(u, j) ==
    LET pre == Precondition("step1_confirm", u, j, {JOB_STATUS_STEP1_READY}) IN
    /\ users' = ensure_user(users, u)
    /\ IF pre # NoResp
       THEN /\ resp' = Observed(pre)
            /\ UNCHANGED jobs
       ELSE /\ jobs' = [jobs EXCEPT ![j] =
                          update_job([@ EXCEPT !.final_step1 = TRUE], JOB_STATUS_STEP1_CONFIRMED,
                                     PROGRESS_STEP1_CONFIRMED, NULL, NULL)]
            /\ resp' = Observed(Response("step1_confirm", u, j, NULL, 200, NULL))
    /\ UNCHANGED <<arg, ret, observe, made, queue, ledger, coupons, workers, reqs, claims,
                   execs, crashes>>

\* PUT /jobs/{id}/step2/confirm with a non-empty list of valid chapters.
Step2Confirm(u, j) ==
    LET pre == Precondition("step2_confirm", u, j, {JOB_STATUS_STEP2_READY}) IN
    /\ users' = ensure_user(users, u)
    /\ IF pre # NoResp
       THEN /\ resp' = Observed(pre)
            /\ UNCHANGED jobs
       ELSE /\ jobs' = [jobs EXCEPT ![j] =
                          update_job([@ EXCEPT !.final_topics = TRUE], JOB_STATUS_STEP2_CONFIRMED,
                                     PROGRESS_STEP2_CONFIRMED, NULL, NULL)]
            /\ resp' = Observed(Response("step2_confirm", u, j, NULL, 200, NULL))
    /\ UNCHANGED <<arg, ret, observe, made, queue, ledger, coupons, workers, reqs, claims,
                   execs, crashes>>

\* constants.py: the statuses the GET endpoints accept.
STEP1_GET_ALLOWED_STATUSES ==
    {JOB_STATUS_STEP1_READY, JOB_STATUS_STEP1_CONFIRMED, JOB_STATUS_STEP2_RUNNING,
     JOB_STATUS_STEP2_READY, JOB_STATUS_STEP2_CONFIRMED}
STEP2_GET_ALLOWED_STATUSES == {JOB_STATUS_STEP2_READY, JOB_STATUS_STEP2_CONFIRMED}
RENDER_GET_ALLOWED_STATUSES == {JOB_STATUS_STEP2_CONFIRMED, JOB_STATUS_SUCCEEDED}

\* A handler that writes nothing but the user row of require_current_user.
ReadOnly(u, response) ==
    /\ users' = ensure_user(users, u)
    /\ resp' = Observed(response)
    /\ UNCHANGED <<arg, ret, observe, made, queue, jobs, ledger, coupons, workers, reqs,
                   claims, execs, crashes>>

\* The response of a handler whose checks passed unless pre is an error.
Answer(pre, endpoint, u, j, http, code) ==
    IF pre # NoResp THEN pre ELSE Response(endpoint, u, j, NULL, http, code)

\* GET /jobs/{id}
GetJob(u, j) ==
    ReadOnly(u, Answer(Precondition("get_job", u, j, JobStatuses), "get_job", u, j, 200, NULL))

\* GET /jobs/{id}/step1
Step1Get(u, j) ==
    ReadOnly(u, Answer(Precondition("step1_get", u, j, STEP1_GET_ALLOWED_STATUSES),
                       "step1_get", u, j, 200, NULL))

\* GET /jobs/{id}/step2
Step2Get(u, j) ==
    ReadOnly(u, Answer(Precondition("step2_get", u, j, STEP2_GET_ALLOWED_STATUSES),
                       "step2_get", u, j, 200, NULL))

\* GET /jobs/{id}/render/config: build_web_render_config raises when
\* final_step1.srt is missing or yields no caption or no segment.
RenderConfig(u, j) ==
    LET pre == Precondition("render_config", u, j, RENDER_GET_ALLOWED_STATUSES) IN
    \E timeline_empty \in BOOLEAN :
        ReadOnly(u, IF ~_normalize_files(jobs[j]).final_step1_srt_path \/ timeline_empty
                    THEN Answer(pre, "render_config", u, j, 409, "INVALID_STEP_STATE")
                    ELSE Answer(pre, "render_config", u, j, 200, NULL))

\* GET /jobs/{id}/render/source: resolve_render_source_path
RenderSource(u, j) ==
    LET pre == Precondition("render_source", u, j, RENDER_GET_ALLOWED_STATUSES) IN
    ReadOnly(u, IF ~_normalize_files(jobs[j]).video_path
                THEN Answer(pre, "render_source", u, j, 409, "INVALID_STEP_STATE")
                ELSE Answer(pre, "render_source", u, j, 200, NULL))

\* GET /jobs/{id}/download with cleanup_on_download: the file is streamed and
\* mark_job_cleanup_from_now touches the job.
RenderDownload(u, j, should_cleanup) ==
    LET pre == Precondition("download", u, j, {JOB_STATUS_SUCCEEDED}) IN
    /\ users' = ensure_user(users, u)
    /\ IF pre # NoResp \/ ~_normalize_files(jobs[j]).final_video_path
       THEN /\ resp' = Observed(Answer(pre, "download", u, j, 409, "INVALID_STEP_STATE"))
            /\ UNCHANGED jobs
       ELSE /\ resp' = Observed(Response("download", u, j, NULL, 200, NULL))
            /\ jobs' = [jobs EXCEPT ![j] = IF should_cleanup
                                           THEN mark_job_cleanup_from_now(@) ELSE @]
    /\ UNCHANGED <<arg, ret, observe, made, queue, ledger, coupons, workers, reqs, claims,
                   execs, crashes>>

(***************************************************************************)
(* scripts/coupon_admin.py and the clock                                   *)
(***************************************************************************)
CmdDisable(c) ==
    /\ coupons' = cmd_disable(coupons, c)
    /\ UNCHANGED <<arg, ret, observe, made, queue, jobs, ledger, users, workers, reqs, resp,
                   claims, execs, crashes>>

\* The clock passes the coupon's expires_at.
Expire(c) ==
    /\ coupons[c].expires_at = "FUTURE"
    /\ coupons' = [coupons EXCEPT ![c].expires_at = "PAST"]
    /\ UNCHANGED <<arg, ret, observe, made, queue, jobs, ledger, users, workers, reqs, resp,
                   claims, execs, crashes>>

(***************************************************************************)
(* worker/runner.py run_worker_loop, services/tasks.py execute_task,       *)
(* services/step1.py run_step1, services/step2.py run_step2                *)
(***************************************************************************)
Raise(w, exc) == [workers EXCEPT ![w].pc = "fail_task", ![w].exc = exc]
Goto(w, pc) == [workers EXCEPT ![w].pc = pc]

\* task = claim_next_task(); a None result sleeps and polls again.
Claim(w) ==
    LET res == claim_next_task(queue) IN
    /\ workers[w].alive /\ workers[w].pc = "idle"
    /\ \A x \in Earlier(w) : ~(workers[x].alive /\ workers[x].pc = "idle")
    /\ res.task_id # 0
    /\ queue' = res.queue
    /\ workers' = [workers EXCEPT ![w] =
                     [IdleWorker EXCEPT !.pc = "execute", !.task_id = res.task_id,
                                        !.job_id = queue[res.task_id].job_id,
                                        !.task_type = queue[res.task_id].task_type]]
    /\ claims' = [claims EXCEPT ![res.task_id] = @ + 1]
    /\ UNCHANGED <<arg, ret, observe, made, jobs, ledger, coupons, users, reqs, resp, execs,
                   crashes>>

\* execute_task dispatches to run_step1: _load_required_paths, the owner and
\* the read-only credit check.
Step1Start(w) ==
    LET j == workers[w].job_id
        files == _normalize_files(jobs[j])
        owner_user_id == get_job_owner_user_id(jobs[j]) IN
    /\ workers[w].alive /\ workers[w].pc = "execute"
    /\ workers[w].task_type = TASK_TYPE_STEP1
    /\ execs' = [execs EXCEPT ![workers[w].task_id] = @ + 1]
    /\ workers' =
         IF ~jobs[j].exists THEN Raise(w, "job files not found")
         ELSE IF ~files.audio_path THEN Raise(w, AUDIO_MISSING)
         ELSE IF owner_user_id = NULL THEN Raise(w, "job owner not found")
         ELSE IF ~has_available_credits(ledger, owner_user_id, 1) THEN Raise(w, INSUFFICIENT)
         ELSE [workers EXCEPT ![w].pc = "s1_pipeline", ![w].owner_user_id = owner_user_id]
    /\ UNCHANGED <<arg, ret, observe, made, queue, jobs, ledger, coupons, users, reqs, resp,
                   claims, crashes>>

\* run_transcribe and run_auto_edit raise, or the lines are built and
\* final_step1.srt, final_step1.json and the manifest are written.
Step1Pipeline(w) ==
    LET j == workers[w].job_id IN
    /\ workers[w].alive /\ workers[w].pc = "s1_pipeline"
    /\ \/ /\ workers' = Raise(w, STAGE_ERROR)
          /\ UNCHANGED jobs
       \/ /\ jobs' = [jobs EXCEPT ![j] = touch_job([@ EXCEPT !.final_step1 = TRUE])]
          /\ workers' = Goto(w, "s1_debit")
    /\ UNCHANGED <<arg, ret, observe, made, queue, ledger, coupons, users, reqs, resp, claims,
                   execs, crashes>>

\* consume_step1_credit(owner_user_id, job_id)
Step1Debit(w) ==
    LET res == consume_step1_credit(ledger, workers[w].owner_user_id, workers[w].job_id) IN
    /\ workers[w].alive /\ workers[w].pc = "s1_debit"
    /\ ledger' = res.ledger
    /\ workers' = IF res.raised = "INSUFFICIENT_CREDITS" THEN Raise(w, INSUFFICIENT)
                  ELSE Goto(w, "s1_ready")
    /\ UNCHANGED <<arg, ret, observe, made, queue, jobs, coupons, users, reqs, resp, claims,
                   execs, crashes>>

\* update_job(job_id, status=STEP1_READY, progress=PROGRESS_STEP1_READY)
Step1Ready(w) ==
    LET j == workers[w].job_id IN
    /\ workers[w].alive /\ workers[w].pc = "s1_ready"
    /\ jobs' = [jobs EXCEPT ![j] = update_job(@, JOB_STATUS_STEP1_READY, PROGRESS_STEP1_READY,
                                              NULL, NULL)]
    /\ workers' = Goto(w, "succeed")
    /\ UNCHANGED <<arg, ret, observe, made, queue, ledger, coupons, users, reqs, resp, claims,
                   execs, crashes>>

\* run_step2's push(progress) with its last_progress: the value it keeps as
\* last_progress and whether it stores it with update_job.
push_unguarded(last_progress, progress) ==
    [value |-> progress, stored |-> TRUE]

push(last_progress, progress) ==
    LET value == Max({last_progress, Min({progress, PROGRESS_STEP2_READY - 1})}) IN
    IF value <= last_progress THEN [value |-> last_progress, stored |-> FALSE]
    ELSE [value |-> value, stored |-> TRUE]

\* The job directory after push(progress).
pushed(job, last_progress, progress) ==
    LET res == push(last_progress, progress) IN
    IF res.stored THEN update_job(job, JOB_STATUS_STEP2_RUNNING, res.value, NULL, NULL)
    ELSE job

\* run_step2 up to push(PROGRESS_STEP2_RUNNING + 1)
Step2Start(w) ==
    LET j == workers[w].job_id
        files == _normalize_files(jobs[j]) IN
    /\ workers[w].alive /\ workers[w].pc = "execute"
    /\ workers[w].task_type = TASK_TYPE_STEP2
    /\ execs' = [execs EXCEPT ![workers[w].task_id] = @ + 1]
    /\ IF ~jobs[j].exists
       THEN workers' = Raise(w, "job files missing for step2") /\ UNCHANGED jobs
       ELSE IF ~files.final_step1_srt_path
       THEN workers' = Raise(w, STEP1_SRT_MISSING) /\ UNCHANGED jobs
       ELSE /\ jobs' = [jobs EXCEPT ![j] = pushed(@, PROGRESS_STEP2_RUNNING,
                                                  PROGRESS_STEP2_RUNNING + 1)]
            /\ workers' = Goto(w, "s2_segment")
    /\ UNCHANGED <<arg, ret, observe, made, queue, ledger, coupons, users, reqs, resp, claims,
                   crashes>>

\* run_topic_segmentation_from_optimized_srt raises, or push(PROGRESS_STEP2_RUNNING + 8)
Step2Segment(w) ==
    LET j == workers[w].job_id IN
    /\ workers[w].alive /\ workers[w].pc = "s2_segment"
    /\ \/ /\ workers' = Raise(w, STAGE_ERROR)
          /\ UNCHANGED jobs
       \/ /\ jobs' = [jobs EXCEPT ![j] = pushed(@, PROGRESS_STEP2_RUNNING + 1,
                                                PROGRESS_STEP2_RUNNING + 8)]
          /\ workers' = Goto(w, "s2_write")
    /\ UNCHANGED <<arg, ret, observe, made, queue, ledger, coupons, users, reqs, resp, claims,
                   execs, crashes>>

\* The chapters are remapped, push(PROGRESS_STEP2_READY - 1), final_topics.json
\* and the manifest are written.
Step2Write(w) ==
    LET j == workers[w].job_id IN
    /\ workers[w].alive /\ workers[w].pc = "s2_write"
    /\ jobs' = [jobs EXCEPT ![j] =
                  [pushed(@, PROGRESS_STEP2_RUNNING + 8, PROGRESS_STEP2_READY - 1)
                     EXCEPT !.final_topics = TRUE]]
    /\ workers' = Goto(w, "s2_ready")
    /\ UNCHANGED <<arg, ret, observe, made, queue, ledger, coupons, users, reqs, resp, claims,
                   execs, crashes>>

\* update_job(job_id, status=STEP2_READY, progress=PROGRESS_STEP2_READY)
Step2Ready(w) ==
    LET j == workers[w].job_id IN
    /\ workers[w].alive /\ workers[w].pc = "s2_ready"
    /\ jobs' = [jobs EXCEPT ![j] = update_job(@, JOB_STATUS_STEP2_READY, PROGRESS_STEP2_READY,
                                              NULL, NULL)]
    /\ workers' = Goto(w, "succeed")
    /\ UNCHANGED <<arg, ret, observe, made, queue, ledger, coupons, users, reqs, resp, claims,
                   execs, crashes>>

\* execute_task after fn(job_id) returned: set_task_succeeded(task_id)
TaskSucceed(w) ==
    /\ workers[w].alive /\ workers[w].pc = "succeed"
    /\ queue' = set_task_succeeded(queue, workers[w].task_id)
    /\ workers' = [workers EXCEPT ![w] = IdleWorker]
    /\ UNCHANGED <<arg, ret, observe, made, jobs, ledger, coupons, users, reqs, resp, claims,
                   execs, crashes>>

\* execute_task's except branch, first part: set_task_failed(task_id, str(exc))
TaskFail(w) ==
    /\ workers[w].alive /\ workers[w].pc = "fail_task"
    /\ queue' = set_task_failed(queue, workers[w].task_id, workers[w].exc)
    /\ workers' = Goto(w, "fail_job")
    /\ UNCHANGED <<arg, ret, observe, made, jobs, ledger, coupons, users, reqs, resp, claims,
                   execs, crashes>>

\* execute_task's except branch, second part: the update_job of the failure.
execute_task_failure(job, task_type, exc) ==
    IF task_type = TASK_TYPE_STEP1 /\ _is_insufficient_credit_error(exc)
    THEN update_job(job, JOB_STATUS_UPLOAD_READY, PROGRESS_UPLOAD_READY,
                    "INVALID_STEP_STATE", _public_task_error_message(exc))
    ELSE update_job(job, JOB_STATUS_FAILED, NONE_PROGRESS,
                    "INTERNAL_ERROR", _public_task_error_message(exc))

\* The same update_job as far as its write of job.meta.json.
execute_task_failure_meta(job, task_type, exc) ==
    IF task_type = TASK_TYPE_STEP1 /\ _is_insufficient_credit_error(exc)
    THEN update_job_meta(job, JOB_STATUS_UPLOAD_READY, PROGRESS_UPLOAD_READY)
    ELSE update_job_meta(job, JOB_STATUS_FAILED, NONE_PROGRESS)

JobFail(w) ==
    LET j == workers[w].job_id IN
    /\ workers[w].alive /\ workers[w].pc = "fail_job"
    /\ jobs' = [jobs EXCEPT ![j] = execute_task_failure(@, workers[w].task_type, workers[w].exc)]
    /\ workers' = [workers EXCEPT ![w] = IdleWorker]
    /\ UNCHANGED <<arg, ret, observe, made, queue, ledger, coupons, users, reqs, resp, claims,
                   execs, crashes>>

\* JobFail file by file: update_job has written job.meta.json ...
JobFailMeta(w) ==
    LET j == workers[w].job_id IN
    /\ workers[w].alive /\ workers[w].pc = "fail_job"
    /\ jobs' = [jobs EXCEPT ![j] =
                  execute_task_failure_meta(@, workers[w].task_type, workers[w].exc)]
    /\ workers' = Goto(w, "fail_job_error")
    /\ UNCHANGED <<arg, ret, observe, made, queue, ledger, coupons, users, reqs, resp, claims,
                   execs, crashes>>

\* ... and then writes or removes job.error.json.
JobFailError(w) ==
    LET j == workers[w].job_id IN
    /\ workers[w].alive /\ workers[w].pc = "fail_job_error"
    /\ jobs' = [jobs EXCEPT ![j] = execute_task_failure(@, workers[w].task_type, workers[w].exc)]
    /\ workers' = [workers EXCEPT ![w] = IdleWorker]
    /\ UNCHANGED <<arg, ret, observe, made, queue, ledger, coupons, users, reqs, resp, claims,
                   execs, crashes>>

\* The worker process dies; everything it held in memory is lost.
Crash(w) ==
    /\ workers[w].alive
    /\ crashes < MaxCrashes
    /\ crashes' = crashes + 1
    /\ workers' = [workers EXCEPT ![w] = [IdleWorker EXCEPT !.alive = FALSE]]
    /\ UNCHANGED <<arg, ret, observe, made, queue, jobs, ledger, coupons, users, reqs, resp,
                   claims, execs>>

\* The worker process is started again: main runs cleanup_on_startup and
\* enters run_worker_loop.
Restart(w) ==
    /\ ~workers[w].alive
    /\ workers' = [workers EXCEPT ![w] = IdleWorker]
    /\ jobs' = cleanup_on_startup(jobs)
    /\ UNCHANGED <<arg, ret, observe, made, queue, ledger, coupons, users, reqs, resp, claims,
                   execs, crashes>>

\* run_worker_loop, top of the loop, cleanup_interval_seconds after the last
\* sweep: cleanup_expired_jobs cleans one batch of expired jobs and removes
\* the orphan directories whose mtime lies before the cutoff.
CleanupExpired(w) ==
    /\ workers[w].alive /\ workers[w].pc = "idle"
    /\ \E B \in list_expired_succeeded_jobs(jobs, cleanup_batch_size),
          O \in SUBSET {j \in JobIds : Orphan_dir(jobs[j])} :
          jobs' = Cleaned(jobs, B, O)
    /\ UNCHANGED <<arg, ret, observe, made, queue, ledger, coupons, users, workers, reqs, resp,
                   claims, execs, crashes>>

\* app.py startup_event: the API process starts with no request in flight.
AppStartup ==
    /\ \A r \in Reqs : reqs[r] = IdleReq
    /\ jobs' = cleanup_on_startup(jobs)
    /\ UNCHANGED <<arg, ret, observe, made, queue, ledger, coupons, users, workers, reqs, resp,
                   claims, execs, crashes>>

\* run_render(job_id) on a confirmed job whose render inputs exist.
\* TASK_DISPATCH has no entry for it: the renderer runs outside the queue.
RunRender(j) ==
    LET files == _normalize_files(jobs[j]) IN
    /\ jobs[j].exists
    /\ get_job(jobs[j], NULL).status = JOB_STATUS_STEP2_CONFIRMED
    /\ files.video_path /\ files.final_step1_srt_path
    /\ jobs' = [jobs EXCEPT ![j] = run_render(@)]
    /\ UNCHANGED <<arg, ret, observe, made, queue, ledger, coupons, users, workers, reqs, resp,
                   claims, execs, crashes>>

\* The clock: cleanup_ttl_seconds have passed since the job was last updated.
Age(j) ==
    /\ jobs[j].exists /\ jobs[j].updated_at = "RECENT"
    /\ jobs' = [jobs EXCEPT ![j].updated_at = "EXPIRED"]
    /\ UNCHANGED <<arg, ret, observe, made, queue, ledger, coupons, users, workers, reqs, resp,
                   claims, execs, crashes>>

\* One step of a worker that only ever finds STEP1 tasks.
WorkerStep1(w) ==
    \/ Claim(w)
    \/ Step1Start(w) \/ Step1Pipeline(w) \/ Step1Debit(w) \/ Step1Ready(w)
    \/ TaskSucceed(w) \/ TaskFail(w) \/ JobFail(w)

WorkerStep(w) ==
    \/ WorkerStep1(w)
    \/ Step2Start(w) \/ Step2Segment(w) \/ Step2Write(w) \/ Step2Ready(w)

(***************************************************************************)
(* The job pipeline: one signed-in user redeems a coupon, creates jobs,    *)
(* uploads, runs and confirms the two steps while the workers poll the     *)
(* queue.  Responses are not recorded.                                     *)
(***************************************************************************)
InitPipeline ==
    /\ Init
    /\ observe = FALSE

NextPipeline ==
    \/ \E raw \in {"CPN-A"} : Redeem("u1", raw)
    \/ CreateJob("u1")
    \/ \E j \in JobIds, name \in {"AUDIO", "VIDEO"} : Upload("u1", j, name)
    \/ \E r \in Reqs, j \in JobIds, t \in {TASK_TYPE_STEP1, TASK_TYPE_STEP2} :
          RunCheck(r, "u1", j, t)
    \/ \E r \in Reqs : RunEnqueue(r)
    \/ \E r \in Reqs : RunUpdate(r)
    \/ \E j \in JobIds : Step1Confirm("u1", j)
    \/ \E j \in JobIds : Step2Confirm("u1", j)
    \/ \E w \in Workers : WorkerStep(w)

Spec == InitPipeline /\ [][NextPipeline]_vars

(***************************************************************************)
(* Credits: one user redeems both coupons at any time and runs STEP1 of    *)
(* their jobs, concurrently and repeatedly.                                *)
(***************************************************************************)
NextCredits ==
    \/ \E raw \in {"CPN-A", "CPN-B"} : Redeem("u1", raw)
    \/ CreateJob("u1")
    \/ \E j \in JobIds : Upload("u1", j, "AUDIO")
    \/ \E r \in Reqs, j \in JobIds : RunCheck(r, "u1", j, TASK_TYPE_STEP1)
    \/ \E r \in Reqs : RunEnqueue(r)
    \/ \E r \in Reqs : RunUpdate(r)
    \/ \E w \in Workers : WorkerStep1(w)

SpecCredits == InitPipeline /\ [][NextCredits]_vars

(***************************************************************************)
(* Coupons: every user sends every raw code, reads the profile and creates *)
(* jobs, the operator disables coupons, the clock passes expiry dates.     *)
(* Responses are recorded.                                                 *)
(***************************************************************************)
InitCoupons ==
    /\ Init
    /\ observe = TRUE

NextCoupons ==
    \/ \E u \in Users, raw \in RawCodes : Redeem(u, raw)
    \/ \E u \in Users : GetMe(u)
    \/ \E u \in Users : CreateJob(u)
    \/ \E c \in Codes : CmdDisable(c)
    \/ \E c \in Codes : Expire(c)

SpecCoupons == InitCoupons /\ [][NextCoupons]_vars

(***************************************************************************)
(* Crashes: the workers die and are started again while STEP1 tasks are    *)
(* queued and run.  A live worker keeps polling and a stage function       *)
(* returns or raises (weak fairness of its steps), a dead worker is        *)
(* started again, and a request that entered queue_job_task finishes it.   *)
(***************************************************************************)
NextCrash ==
    \/ Redeem("u1", "CPN-A")
    \/ CreateJob("u1")
    \/ \E j \in JobIds : Upload("u1", j, "AUDIO")
    \/ \E j \in JobIds : RunCheck("r1", "u1", j, TASK_TYPE_STEP1)
    \/ RunEnqueue("r1")
    \/ RunUpdate("r1")
    \/ \E w \in Workers : WorkerStep1(w)
    \/ \E w \in Workers : Crash(w)
    \/ \E w \in Workers : Restart(w)

SpecCrash ==
    /\ InitPipeline
    /\ [][NextCrash]_vars
    /\ \A w \in Workers : WF_vars(WorkerStep1(w)) /\ WF_vars(Restart(w))
    /\ WF_vars(RunEnqueue("r1")) /\ WF_vars(RunUpdate("r1"))

(***************************************************************************)
(* Liveness: one user takes jobs through both steps, one request at a      *)
(* time, and no worker dies.  Every worker keeps running its loop and      *)
(* every stage function returns or raises (weak fairness of the worker's   *)
(* steps); a request that entered queue_job_task finishes it.              *)
(***************************************************************************)
NextLive ==
    \/ Redeem("u1", "CPN-A")
    \/ CreateJob("u1")
    \/ \E j \in JobIds : Upload("u1", j, "AUDIO")
    \/ \E j \in JobIds, t \in {TASK_TYPE_STEP1, TASK_TYPE_STEP2} : RunCheck("r1", "u1", j, t)
    \/ RunEnqueue("r1")
    \/ RunUpdate("r1")
    \/ \E j \in JobIds : Step1Confirm("u1", j)
    \/ \E w \in Workers : WorkerStep(w)

SpecLive ==
    /\ InitPipeline
    /\ [][NextLive]_vars
    /\ \A w \in Workers : WF_vars(WorkerStep(w))
    /\ WF_vars(RunEnqueue("r1")) /\ WF_vars(RunUpdate("r1"))

(***************************************************************************)
(* Writes: the pipeline with one request at a time and one worker, whose   *)
(* update_job of a failure is taken file by file, first job.meta.json and  *)
(* then job.error.json.                                                    *)
(***************************************************************************)
NextWrites ==
    \/ Redeem("u1", "CPN-A")
    \/ CreateJob("u1")
    \/ \E j \in JobIds, name \in {"AUDIO", "VIDEO"} : Upload("u1", j, name)
    \/ \E j \in JobIds, t \in {TASK_TYPE_STEP1, TASK_TYPE_STEP2} : RunCheck("r1", "u1", j, t)
    \/ RunEnqueue("r1")
    \/ RunUpdate("r1")
    \/ \E j \in JobIds : Step1Confirm("u1", j)
    \/ \E j \in JobIds : Step2Confirm("u1", j)
    \/ Claim("w1")
    \/ Step1Start("w1") \/ Step1Pipeline("w1") \/ Step1Debit("w1") \/ Step1Ready("w1")
    \/ Step2Start("w1") \/ Step2Segment("w1") \/ Step2Write("w1") \/ Step2Ready("w1")
    \/ TaskSucceed("w1") \/ TaskFail("w1")
    \/ JobFailMeta("w1") \/ JobFailError("w1")

SpecWrites == InitPipeline /\ [][NextWrites]_vars

(***************************************************************************)
(* Access: the owner u1 takes one job through the pipeline with one        *)
(* request in flight and one worker, while u1 and the stranger u2 call     *)
(* every /jobs/{id}/... endpoint on that job and on a job id that does not *)
(* exist, at any time.  Responses are recorded.                            *)
(***************************************************************************)
\* One request of user u to an endpoint of job j.
JobRequest(u, j) ==
    \/ GetJob(u, j)
    \/ Upload(u, j, "AUDIO")
    \/ \E t \in {TASK_TYPE_STEP1, TASK_TYPE_STEP2} : RunCheck("r1", u, j, t)
    \/ Step1Get(u, j)
    \/ Step1Confirm(u, j)
    \/ Step2Get(u, j)
    \/ Step2Confirm(u, j)
    \/ RenderRun(u, j)
    \/ RenderConfig(u, j)
    \/ RenderSource(u, j)
    \/ \E should_cleanup \in BOOLEAN : RenderDownload(u, j, should_cleanup)

NextAccess ==
    \/ Redeem("u1", "CPN-A")
    \/ made = 0 /\ CreateJob("u1")
    \/ \E u \in Users, j \in JobIds : JobRequest(u, j)
    \/ RunEnqueue("r1")
    \/ RunUpdate("r1")
    \/ WorkerStep("w1")

SpecAccess == InitCoupons /\ [][NextAccess]_vars

(***************************************************************************)
(* Uploads: one user redeems a coupon, creates jobs and posts files of     *)
(* every size around the chunk size and the configured limit; a second     *)
(* user posts to the same jobs, and both poll them.                        *)
(***************************************************************************)
UploadSizes ==
    {0, 1, MiB, MiB + 1, max_bytes - 1, max_bytes, max_bytes + 1, max_bytes + MiB}

NextUpload ==
    \/ Redeem("u1", "CPN-A")
    \/ CreateJob("u1")
    \/ \E u \in Users, j \in JobIds, name \in {"AUDIO", "VIDEO", "OTHER"}, size \in UploadSizes,
          probed \in BOOLEAN :
          UploadProbed(u, j, name, size, probed)
    \/ \E u \in Users, j \in JobIds : GetJob(u, j)

SpecUpload == InitCoupons /\ [][NextUpload]_vars

(***************************************************************************)
(* Cleanup: one user takes jobs through both steps, one request at a time  *)
(* and with one worker, while the clock advances, the worker runs its      *)
(* periodic sweep between two tasks and the API process is started.        *)
(***************************************************************************)
NextCleanup ==
    \/ Redeem("u1", "CPN-A")
    \/ CreateJob("u1")
    \/ \E j \in JobIds : Upload("u1", j, "AUDIO")
    \/ \E j \in JobIds, t \in {TASK_TYPE_STEP1, TASK_TYPE_STEP2} : RunCheck("r1", "u1", j, t)
    \/ RunEnqueue("r1")
    \/ RunUpdate("r1")
    \/ \E j \in JobIds : Step1Confirm("u1", j)
    \/ \E j \in JobIds : Step2Confirm("u1", j)
    \/ WorkerStep("w1")
    \/ \E j \in JobIds : Age(j)
    \/ CleanupExpired("w1")
    \/ AppStartup

SpecCleanup == InitPipeline /\ [][NextCleanup]_vars

(***************************************************************************)
(* Download: one user takes one job through both steps, the renderer       *)
(* leaves its output, and the user downloads it and asks for the job while *)
(* the clock advances and the cleanup runs.  Responses are recorded.       *)
(***************************************************************************)
NextDownload ==
    \/ Redeem("u1", "CPN-A")
    \/ made = 0 /\ CreateJob("u1")
    \/ Upload("u1", 1, "AUDIO")
    \/ \E t \in {TASK_TYPE_STEP1, TASK_TYPE_STEP2} : RunCheck("r1", "u1", 1, t)
    \/ RunEnqueue("r1")
    \/ RunUpdate("r1")
    \/ Step1Confirm("u1", 1)
    \/ Step2Confirm("u1", 1)
    \/ WorkerStep("w1")
    \/ RunRender(1)
    \/ \E should_cleanup \in BOOLEAN : RenderDownload("u1", 1, should_cleanup)
    \/ GetJob("u1", 1)
    \/ Age(1)
    \/ CleanupExpired("w1")
    \/ AppStartup

SpecDownload == InitCoupons /\ [][NextDownload]_vars

(***************************************************************************)
(* services/cleanup.py: the paths cleanup_job_artifacts removes.  The file *)
(* system holds the job directory with the uploaded video and two symbolic *)
(* links, another job's directory inside the work directory, and a         *)
(* directory with a file outside of it.  A path names one of these         *)
(* objects, either plainly or spelled from inside the job directory with   *)
(* ".." segments.                                                          *)
(***************************************************************************)
FsObjects ==
    {"jobdir", "video", "link_in", "linkdir_in", "otherdir", "other", "data", "secret",
     "link_out", "missing"}

\* Where the object itself lies: in the job directory, elsewhere in the
\* work directory, or outside the work directory.
Located(o) ==
    CASE o \in {"jobdir", "video", "link_in", "linkdir_in"} -> "JOB"
      [] o \in {"otherdir", "other"} -> "WORK"
      [] OTHER -> "OUT"

Kind(o) ==
    CASE o \in {"jobdir", "otherdir", "data"} -> "dir"
      [] o \in {"link_in", "linkdir_in", "link_out"} -> "link"
      [] o = "missing" -> "none"
      [] OTHER -> "file"

\* What a symbolic link points to.
Target(o) ==
    CASE o = "link_in" -> "secret"
      [] o = "linkdir_in" -> "data"
      [] o = "link_out" -> "video"
      [] OTHER -> o

\* The objects in a directory.
Inside(o) ==
    CASE o = "jobdir" -> {"video", "link_in", "linkdir_in"}
      [] o = "otherdir" -> {"other"}
      [] o = "data" -> {"secret"}
      [] OTHER -> {}

NoPath == [via |-> NULL, obj |-> NULL]
RawPaths == [via : {"plain", "dotdot"}, obj : FsObjects \ {"jobdir"}]
job_base == [via |-> "plain", obj |-> "jobdir"]

\* ARTIFACT_FIELDS, two of the seven slots.
ARTIFACT_FIELDS == {"video_path", "final_video_path"}

\* Path.resolve(strict=False): ".." segments are folded and links followed.
resolve(path) == Target(path.obj)

\* Path.exists() and Path.is_dir() follow links.
path_exists(path) == Kind(resolve(path)) # "none"
path_is_dir(path) == Kind(resolve(path)) = "dir"

\* A test of the spelling alone: the path starts with the work directory.
_is_within_unresolved(target) == target.via = "dotdot" \/ Located(target.obj) # "OUT"

\* _is_within(settings.work_dir, target)
_is_within(target) == Located(resolve(target)) # "OUT"

\* repository._normalize_files: a declared path is kept if it exists.
DeclaredFiles(manifest) ==
    [field \in ARTIFACT_FIELDS |->
        IF manifest[field] # NoPath /\ path_exists(manifest[field]) THEN manifest[field]
        ELSE NoPath]

\* _collect_artifact_paths(job_id, files)
_collect_artifact_paths(files) ==
    {files[field] : field \in {f \in ARTIFACT_FIELDS : files[f] # NoPath /\ _is_within(files[f])}}
        \cup {job_base}

\* _remove_path: the objects that are gone after it.  shutil.rmtree refuses a
\* symbolic link to a directory and the error is ignored; unlink removes a
\* link, not what it points to.
_remove_path(path) ==
    IF ~path_exists(path) THEN {}
    ELSE IF path_is_dir(path)
    THEN IF Kind(path.obj) = "link" THEN {} ELSE {path.obj} \cup Inside(path.obj)
    ELSE {path.obj}

\* cleanup_job_artifacts: the paths it passes to _remove_path, the objects
\* these calls delete and the declared paths it skips.
cleanup_paths(manifest) ==
    LET files == DeclaredFiles(manifest)
        paths == _collect_artifact_paths(files) IN
    [removed |-> paths,
     deleted |-> UNION {_remove_path(path) : path \in paths},
     skipped |-> {files[field] : field \in ARTIFACT_FIELDS} \ (paths \cup {NoPath})]

InitPaths ==
    /\ InitStores
    /\ observe = FALSE
    /\ arg \in [ARTIFACT_FIELDS -> RawPaths \cup {NoPath}]
    /\ ret = <<>>

CleanupPaths ==
    /\ ret = <<>>
    /\ ret' = <<cleanup_paths(arg)>>
    /\ UNCHANGED <<arg, stores>>

SpecPaths == InitPaths /\ [][CleanupPaths]_vars

(***************************************************************************)
(* services/step2.py: the chapters run_step2 stores.  The kept step 1      *)
(* lines are any non-empty choice of the line ids 1..MaxLines.  cut.srt    *)
(* numbers their captions 1, 2, ... (rendering/cut_srt.py write_cut_srt)   *)
(* and the topic segmenter returns consecutive blocks of these numbers     *)
(* that cover all of them (_normalize_segment_plan, or the cue fallback).  *)
(***************************************************************************)
Elems(seq) == {seq[i] : i \in 1..Len(seq)}

RECURSIVE SortedSeq(_)
SortedSeq(S) == IF S = {} THEN <<>> ELSE <<Min(S)>> \o SortedSeq(S \ {Min(S)})

\* The blocks of 1..m that end at the numbers in cuts and at m.
SegmentPlan(m, cuts) ==
    LET starts == SortedSeq({1} \cup {c + 1 : c \in cuts}) IN
    [b \in 1..Len(starts) |->
        LET first == starts[b]
            last == IF b < Len(starts) THEN starts[b + 1] - 1 ELSE m IN
        [i \in 1..(last - first + 1) |-> first + i - 1]]

\* _kept_line_ids and the chapters _load_chapters reads from topics.json.
Step2Inputs ==
    {[kept_line_ids |-> SortedSeq(K), chapters |-> SegmentPlan(Cardinality(K), cuts)] :
        <<K, cuts>> \in {kc \in (SUBSET (1..MaxLines)) \X (SUBSET (1..MaxLines)) :
                            kc[1] # {} /\ kc[2] \subseteq 1..(Cardinality(kc[1]) - 1)}}

\* _map_line_ids_to_step1 from raw_line_ids[i] on; 0 stands for None.
RECURSIVE _map_line_ids_from(_, _, _, _)
_map_line_ids_from(raw_line_ids, kept_line_ids, i, mapped) ==
    IF i > Len(raw_line_ids) THEN mapped
    ELSE LET raw == raw_line_ids[i]
             total == Len(kept_line_ids)
             candidate == IF raw \in Elems(kept_line_ids) THEN raw
                          ELSE IF 1 <= raw /\ raw <= total THEN kept_line_ids[raw]
                          ELSE 0 IN
         _map_line_ids_from(raw_line_ids, kept_line_ids, i + 1,
                            IF candidate = 0 \/ candidate \in Elems(mapped) THEN mapped
                            ELSE Append(mapped, candidate))

_map_line_ids_to_step1(raw_line_ids, kept_line_ids) ==
    _map_line_ids_from(raw_line_ids, kept_line_ids, 1, <<>>)

\* The loop over missing: lid goes to the first chapter that has ids and
\* whose largest id is not below lid, else to the last chapter.
RECURSIVE AppendMissing(_, _, _)
AppendMissing(chapters, missing, i) ==
    IF i > Len(missing) THEN chapters
    ELSE LET lid == missing[i]
             holds == {idx \in 1..Len(chapters) :
                         chapters[idx] # <<>> /\ lid <= Max(Elems(chapters[idx]))}
             target_idx == IF holds = {} THEN Len(chapters) ELSE Min(holds) IN
         AppendMissing([chapters EXCEPT ![target_idx] = Append(@, lid)], missing, i + 1)

\* _ensure_full_line_coverage: the line_ids of the chapters after it.
_ensure_full_line_coverage(chapters, kept_line_ids) ==
    LET kept_set == Elems(kept_line_ids)
        mapped == [idx \in 1..Len(chapters) |->
                     _map_line_ids_to_step1(chapters[idx], kept_line_ids)]
        assigned == UNION {Elems(mapped[idx]) \cap kept_set : idx \in 1..Len(mapped)}
        missing == SortedSeq(kept_set \ assigned) IN
    IF chapters = <<>> \/ missing = <<>> THEN mapped
    ELSE LET filled == AppendMissing(mapped, missing, 1) IN
         [idx \in 1..Len(filled) |-> SortedSeq(Elems(filled[idx]) \cap kept_set)]

InitChapters ==
    /\ InitStores
    /\ observe = FALSE
    /\ arg \in Step2Inputs
    /\ ret = <<>>

\* run_step2 from _kept_line_ids to replace_step2_chapters.
StoreChapters ==
    /\ ret = <<>>
    /\ ret' = <<_ensure_full_line_coverage(arg.chapters, arg.kept_line_ids)>>
    /\ UNCHANGED <<arg, stores>>

SpecChapters == InitChapters /\ [][StoreChapters]_vars

(***************************************************************************)
(* video_auto_cut/editing/auto_edit.py: the two LLM passes over one chunk  *)
(* of subtitle lines.  A line content is REMOVE_TOKEN or not, followed by  *)
(* a text; an LLM answer gives a content to the line numbers whose tag it  *)
(* carries.  The texts are the ones of test_auto_edit.py, by their role.   *)
(***************************************************************************)
Content(remove_token, text) == [remove_token |-> remove_token, text |-> text]

\* Number of characters of a text.
text_len(text) ==
    CASE text = "" -> 0
      [] text = "ORIGINAL" -> 12
      [] text = "REWRITE" -> 13
      [] text = "LONG" -> 38
      [] text = "<No Speech>" -> 11

OriginalTexts == {"ORIGINAL", "<No Speech>"}
AnswerContents ==
    {Content(TRUE, ""), Content(TRUE, "REWRITE"), Content(FALSE, ""),
     Content(FALSE, "REWRITE"), Content(FALSE, "LONG")}
Answers(n) == UNION {[tags -> AnswerContents] : tags \in SUBSET (1..n)}

_is_remove_line(content) == content.remove_token \/ content.text = ""

_is_no_speech_text(text) == text \in {"", "<No Speech>"}

\* _parse_tagged_output(text, segments): the contents by line number and the
\* line numbers without a tag.
_parse_tagged_output(text, segments) ==
    [values |-> text, missing |-> (1..Len(segments)) \ DOMAIN text]

\* Step 1 of _auto_edit_segment_chunk: the lines the remove pass removes.
remove_flags(segments, remove_text) ==
    LET parsed == _parse_tagged_output(remove_text, segments)
        remove_mapped == [idx \in 1..Len(segments) |->
                            IF idx \in parsed.missing THEN Content(FALSE, segments[idx])
                            ELSE parsed.values[idx]] IN
    [idx \in 1..Len(segments) |->
        _is_no_speech_text(segments[idx]) \/ _is_remove_line(remove_mapped[idx])]

\* The final loop for a line the remove pass removed.
merge_removed_line(raw_text, orig_text) ==
    IF ~_is_remove_line(raw_text)
    THEN [content |-> raw_text, remove |-> FALSE]
    ELSE [content |-> Content(TRUE, orig_text), remove |-> TRUE]

\* The final loop for a line the remove pass kept.
merge_kept_line_as_answered(raw_text, orig_text) ==
    [content |-> raw_text, remove |-> _is_remove_line(raw_text)]

merge_kept_line(raw_text, orig_text) ==
    IF _is_remove_line(raw_text)
    THEN [content |-> Content(FALSE, orig_text), remove |-> FALSE]
    ELSE [content |-> raw_text, remove |-> FALSE]

\* _auto_edit_segment_chunk on non-empty answers: optimized_subs, with the
\* remove flag that decides kept_segments.
_auto_edit_segment_chunk(segments, remove_text, optimize_text) ==
    LET flags == remove_flags(segments, remove_text)
        parsed == _parse_tagged_output(optimize_text, segments)
        optimize_mapped == [idx \in 1..Len(segments) |->
                              IF idx \notin parsed.missing THEN parsed.values[idx]
                              ELSE IF flags[idx] THEN Content(TRUE, "")
                              ELSE Content(FALSE, segments[idx])] IN
    [idx \in 1..Len(segments) |->
        IF flags[idx] THEN merge_removed_line(optimize_mapped[idx], segments[idx])
        ELSE merge_kept_line(optimize_mapped[idx], segments[idx])]

\* _auto_edit_segments for at most AUTO_EDIT_CHUNK_LINES lines: it raises
\* when no line is kept.
_auto_edit_segments(segments, remove_text, optimize_text) ==
    LET chunk_result == _auto_edit_segment_chunk(segments, remove_text, optimize_text) IN
    IF \A idx \in 1..Len(chunk_result) : chunk_result[idx].remove
    THEN [raised |-> TRUE, optimized_subs |-> <<>>]
    ELSE [raised |-> FALSE,
          optimized_subs |-> [idx \in 1..Len(chunk_result) |-> chunk_result[idx].content]]

InitAutoEdit ==
    /\ InitStores
    /\ observe = FALSE
    /\ \E n \in 1..MaxSegments :
          arg \in [segments : [1..n -> OriginalTexts], remove_text : Answers(n),
                   optimize_text : Answers(n)]
    /\ ret = <<>>

AutoEditSegments ==
    /\ ret = <<>>
    /\ ret' = <<_auto_edit_segments(arg.segments, arg.remove_text, arg.optimize_text)>>
    /\ UNCHANGED <<arg, stores>>

SpecAutoEdit == InitAutoEdit /\ [][AutoEditSegments]_vars

(***************************************************************************)
(* repository.py: the status get_job reports for a job directory.  The     *)
(* directory holds any metadata status and any combination of evidence.    *)
(***************************************************************************)
JobDirectories ==
    {[NoJob EXCEPT !.exists = TRUE, !.owner_user_id = "u1", !.updated_at = "RECENT",
                   !.status = d.status, !.progress = _progress_for_status(d.status),
                   !.error = d.error, !.input = d.input, !.final_step1 = d.final_step1,
                   !.step1_confirmed = d.step1_confirmed, !.final_topics = d.final_topics,
                   !.step2_confirmed = d.step2_confirmed, !.output_mp4 = d.output_mp4] :
        d \in [status : JobStatuses,
               error : {NoError, [code |-> "INTERNAL_ERROR", message |-> NEUTRAL_MESSAGE]},
               input : {"NONE", "AUDIO", "VIDEO"},
               final_step1 : BOOLEAN, step1_confirmed : BOOLEAN, final_topics : BOOLEAN,
               step2_confirmed : BOOLEAN, output_mp4 : BOOLEAN]}

InitStatus ==
    /\ InitStores
    /\ observe = FALSE
    /\ arg \in JobDirectories
    /\ ret = <<>>

\* get_job(job_id): its inferred_status and the view it returns.
ReadJob ==
    /\ ret = <<>>
    /\ ret' = <<[inferred_status |-> _infer_job_status(arg), job |-> get_job(arg, NULL)]>>
    /\ UNCHANGED <<arg, stores>>

SpecStatus == InitStatus /\ [][ReadJob]_vars

(***************************************************************************)
(* services/step2.py: push.  arg is the sequence of progress values that   *)
(* are reported to push during one run_step2; ret holds last_progress and  *)
(* the values stored so far.  run_step1 stores no progress while it runs.  *)
(***************************************************************************)
ProgressReports == {0, 59, 60, 61, 68, 74, 75, 100}

InitProgress ==
    /\ InitStores
    /\ observe = FALSE
    /\ \E n \in 1..MaxReports : arg \in [1..n -> ProgressReports]
    /\ ret = <<[last_progress |-> PROGRESS_STEP2_RUNNING, written |-> <<>>, calls |-> 0]>>

\* One call of push.
Push ==
    LET cur == ret[1]
        res == push(cur.last_progress, arg[cur.calls + 1]) IN
    /\ cur.calls < Len(arg)
    /\ ret' = <<[last_progress |-> res.value,
                 written |-> IF res.stored THEN Append(cur.written, res.value)
                             ELSE cur.written,
                 calls |-> cur.calls + 1]>>
    /\ UNCHANGED <<arg, stores>>

SpecProgress == InitProgress /\ [][Push]_vars

(***************************************************************************)
(* services/step1.py: confirm_step1 behind PUT /jobs/{id}/step1/confirm.   *)
(* arg holds the lines run_step1 stored for a job in STEP1_READY and the   *)
(* lines of the request; ret holds what is stored and reported afterwards. *)
(***************************************************************************)
\* str.strip() on the texts a request carries.
strip(text) ==
    CASE text = " " -> ""
      [] text = " REWRITE " -> "REWRITE"
      [] OTHER -> text

Step1Line(line_id, optimized_text, remove) ==
    [line_id |-> line_id, start |-> line_id - 1, end |-> line_id, original_text |-> "ORIGINAL",
     optimized_text |-> optimized_text, ai_suggest_remove |-> remove,
     user_final_remove |-> remove]

StoredLines ==
    UNION {{[k \in 1..n |-> Step1Line(k, f[k].optimized_text, f[k].remove)] :
              f \in [1..n -> [optimized_text : {"ORIGINAL", "REWRITE"}, remove : BOOLEAN]]} :
           n \in 1..MaxSegments}

ConfirmLines ==
    [line_id : 1..(MaxSegments + 1), optimized_text : {"", " REWRITE ", "ORIGINAL"},
     user_final_remove : BOOLEAN]

ConfirmRequests == UNION {[1..n -> ConfirmLines] : n \in 0..MaxUpdates}

\* confirm_step1 with every line of the request dropped from the result
\* unless the request names it.
confirm_step1_named_only(existing, updates) ==
    LET named == {updates[i].line_id : i \in 1..Len(updates)}
        kept == {k \in 1..Len(existing) : existing[k].line_id \in named} IN
    IF existing = <<>> \/ \E i \in 1..Len(updates) :
                              updates[i].line_id \notin Elems([k \in 1..Len(existing) |-> existing[k].line_id])
    THEN [raised |-> TRUE, lines |-> existing]
    ELSE [raised |-> FALSE, lines |-> [n \in 1..Cardinality(kept) |-> existing[SortedSeq(kept)[n]]]]

\* confirm_step1(job_id, updates) over the stored lines: raised, or the lines
\* it stores.  by_id is keyed by line_id, the last update of a line wins.
confirm_step1(existing, updates) ==
    LET ids == {existing[k].line_id : k \in 1..Len(existing)}
        by_id == [id \in ids |->
                    existing[Max({k \in 1..Len(existing) : existing[k].line_id = id})]]
        of(id) == {i \in 1..Len(updates) : updates[i].line_id = id}
        updated == [id \in ids |->
                      IF of(id) = {} THEN by_id[id]
                      ELSE [by_id[id] EXCEPT
                              !.optimized_text = strip(updates[Max(of(id))].optimized_text),
                              !.user_final_remove = updates[Max(of(id))].user_final_remove]] IN
    IF existing = <<>> \/ \E i \in 1..Len(updates) : updates[i].line_id \notin ids
    THEN [raised |-> TRUE, lines |-> existing]
    ELSE [raised |-> FALSE, lines |-> [n \in 1..Cardinality(ids) |-> updated[SortedSeq(ids)[n]]]]

\* A job directory in STEP1_READY.
Step1ReadyJob ==
    [NoJob EXCEPT !.exists = TRUE, !.owner_user_id = "u1", !.updated_at = "RECENT",
                  !.status = JOB_STATUS_STEP1_READY, !.progress = PROGRESS_STEP1_READY,
                  !.input = "VIDEO", !.final_step1 = TRUE]

InitConfirm ==
    /\ InitStores
    /\ observe = FALSE
    /\ arg \in [existing : StoredLines, updates : ConfirmRequests]
    /\ ret = <<>>

\* The step1_confirm route: an empty request is refused before confirm_step1.
ConfirmStep1 ==
    LET result == confirm_step1(arg.existing, arg.updates)
        refused == arg.updates = <<>> \/ result.raised IN
    /\ ret = <<>>
    /\ ret' = <<[refused |-> refused,
                 lines |-> IF refused THEN arg.existing ELSE result.lines,
                 job |-> IF refused THEN get_job(Step1ReadyJob, NULL)
                         ELSE get_job(update_job(Step1ReadyJob, JOB_STATUS_STEP1_CONFIRMED,
                                                 PROGRESS_STEP1_CONFIRMED, NULL, NULL), NULL)]>>
    /\ UNCHANGED <<arg, stores>>

SpecConfirm == InitConfirm /\ [][ConfirmStep1]_vars

(***************************************************************************)
(* utils/srt_utils.py: build_step1_lines_from_srts.  arg holds the         *)
(* subtitles parsed from the original and the optimized SRT file, the      *)
(* optimized ones by index; a subtitle content is a Content, " " standing  *)
(* for a text of white space.                                              *)
(***************************************************************************)
EmptyContent == Content(FALSE, "")

\* (text or "").strip() of a content.
strip_content(content) == Content(content.remove_token, strip(content.text))

_is_remove_text(content) ==
    LET value == strip_content(content) IN
    value = EmptyContent \/ value.remove_token

\* The text left of a content once REMOVE_TOKEN is taken off its front.
_strip_remove_token(content) == strip_content(content).text

OriginalSubs ==
    UNION {{[k \in 1..n |-> [index |-> f[k].index * k, content |-> f[k].content]] :
              f \in [1..n -> [index : {0, 1},
                              content : {EmptyContent, Content(FALSE, "ORIGINAL")}]]} :
           n \in 1..MaxSegments}

OptimizedContents ==
    {EmptyContent, Content(FALSE, " "), Content(FALSE, "REWRITE"), Content(TRUE, ""),
     Content(TRUE, "REWRITE")}

\* build_step1_lines_from_srts(original_srt, optimized_srt, encoding) over the
\* parsed subtitles.  The line ids drawn here are distinct, so the sort by
\* line_id orders the lines by their place in SortedSeq(ids).
build_step1_lines_from_srts(original_subs, optimized_by_index) ==
    LET line(idx) ==
            LET original == original_subs[idx]
                line_id == IF original.index > 0 THEN original.index ELSE idx
                original_text == strip_content(original.content)
                optimized_content ==
                    IF line_id \in DOMAIN optimized_by_index
                    THEN strip_content(IF optimized_by_index[line_id] # EmptyContent
                                       THEN optimized_by_index[line_id] ELSE original_text)
                    ELSE original_text
                ai_suggest_remove == _is_remove_text(optimized_content)
                stripped == _strip_remove_token(optimized_content) IN
            [line_id |-> line_id, original_text |-> original_text.text,
             optimized_text |-> IF stripped # "" THEN stripped ELSE original_text.text,
             ai_suggest_remove |-> ai_suggest_remove, user_final_remove |-> ai_suggest_remove]
        ids == {line(idx).line_id : idx \in 1..Len(original_subs)} IN
    [n \in 1..Len(original_subs) |->
        line(CHOOSE idx \in 1..Len(original_subs) : line(idx).line_id = SortedSeq(ids)[n])]

InitLines ==
    /\ InitStores
    /\ observe = FALSE
    /\ \E original_subs \in OriginalSubs :
          \E indexes \in SUBSET (1..Len(original_subs)) :
             arg \in [original_subs : {original_subs},
                      optimized_by_index : [indexes -> OptimizedContents]]
    /\ ret = <<>>

BuildStep1Lines ==
    /\ ret = <<>>
    /\ ret' = <<build_step1_lines_from_srts(arg.original_subs, arg.optimized_by_index)>>
    /\ UNCHANGED <<arg, stores>>

SpecLines == InitLines /\ [][BuildStep1Lines]_vars

(***************************************************************************)
(* worker/runner.py: run_worker_loop of worker w1.  arg.once is the --once *)
(* flag; ret is the log of the exceptions the loop has caught.  A pass     *)
(* claims with Claim and executes with the steps of WorkerStep1; the three *)
(* try blocks of the loop may raise instead.                               *)
(***************************************************************************)
\* run_worker_loop that raises again whatever it caught.
run_worker_loop_reraise(once, exc) ==
    IF exc # NULL THEN [IdleWorker EXCEPT !.alive = FALSE, !.pc = "raised", !.exc = exc]
    ELSE IF once THEN [IdleWorker EXCEPT !.alive = FALSE, !.pc = "returned"]
    ELSE IdleWorker

\* The worker after the claim or the execution of a pass that caught exc
\* (NULL for none): --once raises it again or returns, the loop goes on.
run_worker_loop(once, exc) ==
    IF once /\ exc # NULL THEN [IdleWorker EXCEPT !.alive = FALSE, !.pc = "raised", !.exc = exc]
    ELSE IF once THEN [IdleWorker EXCEPT !.alive = FALSE, !.pc = "returned"]
    ELSE IdleWorker

\* cleanup_expired_jobs raises: logged, and the pass goes on to claim.
SweepRaises(w) ==
    /\ workers[w].alive /\ workers[w].pc = "idle"
    /\ Len(ret) < MaxReports
    /\ ret' = Append(ret, "periodic cleanup failed")
    /\ UNCHANGED <<arg, stores>>

\* claim_next_task raises: logged, then sleep and the next pass.
ClaimRaises(w) ==
    /\ workers[w].alive /\ workers[w].pc = "idle"
    /\ Len(ret) < MaxReports
    /\ ret' = Append(ret, "claim next task failed")
    /\ workers' = [workers EXCEPT ![w] = run_worker_loop(arg.once, "claim next task failed")]
    /\ UNCHANGED <<arg, observe, made, queue, jobs, ledger, coupons, users, reqs, resp, claims,
                   execs, crashes>>

\* claim_next_task of a pass; --once makes one pass.
LoopClaim(w) ==
    /\ arg.once => \A t \in 1..MaxTasks : claims[t] = 0
    /\ Claim(w)

\* --once: no task to claim, or the task executed: return.
OnceReturn(w) ==
    /\ arg.once
    /\ workers[w].alive /\ workers[w].pc = "idle"
    /\ QueuedRows(queue) = {} \/ \E t \in 1..MaxTasks : claims[t] > 0
    /\ workers' = [workers EXCEPT ![w] = run_worker_loop(arg.once, NULL)]
    /\ UNCHANGED <<arg, ret, observe, made, queue, jobs, ledger, coupons, users, reqs, resp,
                   claims, execs, crashes>>

\* execute_task raises: set_task_succeeded, set_task_failed or the update_job
\* of the failure raised, outside any try of execute_task.
ExecuteRaises(w) ==
    /\ workers[w].alive /\ workers[w].pc \in {"succeed", "fail_task", "fail_job"}
    /\ Len(ret) < MaxReports
    /\ ret' = Append(ret, "execute task failed")
    /\ workers' = [workers EXCEPT ![w] = run_worker_loop(arg.once, "execute task failed")]
    /\ UNCHANGED <<arg, observe, made, queue, jobs, ledger, coupons, users, reqs, resp, claims,
                   execs, crashes>>

InitLoop ==
    /\ InitStores
    /\ observe = FALSE
    /\ arg \in [once : BOOLEAN]
    /\ ret = <<>>

LoopStep(w) ==
    \/ LoopClaim(w)
    \/ Step1Start(w) \/ Step1Pipeline(w) \/ Step1Debit(w) \/ Step1Ready(w)
    \/ TaskSucceed(w) \/ TaskFail(w) \/ JobFail(w)

NextLoop ==
    \/ Redeem("u1", "CPN-A")
    \/ CreateJob("u1")
    \/ \E j \in JobIds : Upload("u1", j, "AUDIO")
    \/ \E j \in JobIds : RunCheck("r1", "u1", j, TASK_TYPE_STEP1)
    \/ RunEnqueue("r1")
    \/ RunUpdate("r1")
    \/ LoopStep("w1")
    \/ SweepRaises("w1")
    \/ ClaimRaises("w1")
    \/ ExecuteRaises("w1")
    \/ OnceReturn("w1")

SpecLoop == InitLoop /\ [][NextLoop]_vars /\ WF_vars(LoopStep("w1"))

(***************************************************************************)
(* Properties                                                              *)
(***************************************************************************)
TaskIds == 1..Len(queue)
Terminal(t) == queue[t].status \in {TASK_STATUS_SUCCEEDED, TASK_STATUS_FAILED}
Live(t) == queue[t].status \in {TASK_STATUS_QUEUED, TASK_STATUS_RUNNING}

\* C1: for every (job_id, task_type) at most one queue_tasks row is QUEUED or
\* RUNNING, whatever the interleaving of enqueue_task, claim_next_task,
\* set_task_succeeded and set_task_failed.
C1_OneLiveRowPerJobAndType ==
    \A j \in JobIds, t \in {TASK_TYPE_STEP1, TASK_TYPE_STEP2, TASK_TYPE_RENDER} :
        Cardinality(LiveRows(queue, j, t)) <= 1

\* Two POST /step1/run requests for the same job have both gone through
\* enqueue_task and the queue holds the single row they share.
C1_Witness ==
    /\ reqs["r1"].pc = "update" /\ reqs["r2"].pc = "update"
    /\ reqs["r1"].job_id = reqs["r2"].job_id
    /\ reqs["r1"].task_type = TASK_TYPE_STEP1 /\ reqs["r2"].task_type = TASK_TYPE_STEP1
    /\ Cardinality(LiveRows(queue, reqs["r1"].job_id, TASK_TYPE_STEP1)) = 1

\* C2: no two claim_next_task calls ever return the same task_id.
C2_ClaimedAtMostOnce == \A t \in 1..MaxTasks : claims[t] <= 1

\* Both workers hold a task at once, each its own.
C2_Witness ==
    /\ workers["w1"].pc # "idle" /\ workers["w2"].pc # "idle"
    /\ workers["w1"].task_id # workers["w2"].task_id
    /\ claims[workers["w1"].task_id] = 1 /\ claims[workers["w2"].task_id] = 1

\* C4: every user's balance, the sum of the user's ledger deltas, is at least 0.
C4_BalanceNeverNegative == \A u \in Users : Balance(u) >= 0

\* Two STEP1 runs of different jobs of one user have both passed the
\* read-only credit check and stand before the debit with one credit left.
C4_Witness ==
    /\ workers["w1"].pc = "s1_debit" /\ workers["w2"].pc = "s1_debit"
    /\ workers["w1"].job_id # workers["w2"].job_id
    /\ workers["w1"].owner_user_id = workers["w2"].owner_user_id
    /\ Balance(workers["w1"].owner_user_id) = 1

\* C5: per job at most one ledger row carries the key job:<id>:step1_success,
\* that row debits 1 from the job's owner, and once run_step1 is past its
\* debit for a job exactly one such row exists, also when STEP1 ran before.
C5_OneDebitPerJob ==
    /\ \A j \in JobIds :
          /\ Cardinality(RowsWithKey(ledger, JobKey(j))) <= 1
          /\ \A i \in RowsWithKey(ledger, JobKey(j)) :
                /\ ledger[i].delta = 0 - 1
                /\ ledger[i].user_id = jobs[j].owner_user_id
    /\ \A w \in Workers :
          workers[w].pc \in {"s1_ready", "succeed"} /\ workers[w].task_type = TASK_TYPE_STEP1
              => Cardinality(RowsWithKey(ledger, JobKey(workers[w].job_id))) = 1

\* STEP1 has succeeded a second time for the same job.
C5_Witness ==
    \E w \in Workers :
        /\ workers[w].pc = "succeed" /\ workers[w].task_id = 2
        /\ queue[1].job_id = queue[2].job_id
        /\ queue[1].task_type = TASK_TYPE_STEP1 /\ queue[2].task_type = TASK_TYPE_STEP1
        /\ queue[1].status = TASK_STATUS_SUCCEEDED

\* A row left RUNNING by a worker that died: no live worker holds it.
Orphan(t) ==
    /\ t \in TaskIds
    /\ queue[t].status = TASK_STATUS_RUNNING
    /\ \A w \in Workers : ~(workers[w].alive /\ workers[w].pc # "idle" /\ workers[w].task_id = t)

\* C3 as stated: once a worker has crashed, every task that is QUEUED or
\* RUNNING is eventually SUCCEEDED or FAILED, and no task's stage function is
\* started more than once.
C3_EveryLiveTaskFinishes ==
    /\ \A t \in 1..MaxTasks :
          (crashes >= 1 /\ t \in TaskIds /\ Live(t)) ~> (t \in TaskIds /\ Terminal(t))
    /\ [](\A t \in 1..MaxTasks : execs[t] <= 1)

\* C3 as the code has it: a QUEUED task is eventually claimed and ends
\* SUCCEEDED or FAILED unless the worker running it dies; the row a dead
\* worker was running stays RUNNING for ever and is never run again; no
\* task's stage function is started more than once.
C3_QueuedTasksFinishOrOrphan ==
    /\ \A t \in 1..MaxTasks :
          (t \in TaskIds /\ queue[t].status = TASK_STATUS_QUEUED)
              ~> ((t \in TaskIds /\ Terminal(t)) \/ Orphan(t))
    /\ \A t \in 1..MaxTasks : [](Orphan(t) => []Orphan(t))
    /\ [](\A t \in 1..MaxTasks : execs[t] <= 1)

\* After a crash and the restart, the task the dead worker was running is
\* still RUNNING while the task that was queued behind it has finished.
C3_Witness ==
    /\ crashes = 1
    /\ \A w \in Workers : workers[w].alive /\ workers[w].pc = "idle"
    /\ \E t, o \in TaskIds : Orphan(o) /\ execs[o] = 1 /\ Terminal(t) /\ execs[t] = 1

\* C6 as stated: used_count is 0 or 1, and used_count = 1 exactly when the
\* status is DISABLED and exactly when the ledger holds the coupon's row.
C6_UsedIffDisabledIffLedger ==
    \A c \in Codes :
        /\ coupons[c].used_count \in {0, 1}
        /\ (coupons[c].used_count = 1) <=> (coupons[c].status = STATUS_DISABLED)
        /\ (coupons[c].status = STATUS_DISABLED) <=> (RowsWithKey(ledger, CouponKey(c)) # {})

\* C6 as the code has it: used_count is 0 or 1, a used coupon is DISABLED
\* (a DISABLED one need not be used), and used_count = 1 exactly when the
\* ledger holds the coupon's row.
C6_UsedImpliesDisabledIffLedger ==
    \A c \in Codes :
        /\ coupons[c].used_count \in {0, 1}
        /\ (coupons[c].used_count = 1) => (coupons[c].status = STATUS_DISABLED)
        /\ (coupons[c].used_count = 1) <=> (RowsWithKey(ledger, CouponKey(c)) # {})

\* One coupon was redeemed, the other was disabled by the operator unused.
C6_Witness ==
    \E c, d \in Codes :
        /\ coupons[c].used_count = 1 /\ RowsWithKey(ledger, CouponKey(c)) # {}
        /\ coupons[d].used_count = 0 /\ coupons[d].status = STATUS_DISABLED

\* The users holding the ledger row of coupon c.
Winners(c) == {ledger[i].user_id : i \in RowsWithKey(ledger, CouponKey(c))}

RECURSIVE SumCredits(_)
SumCredits(S) ==
    IF S = {} THEN 0
    ELSE LET c == CHOOSE x \in S : TRUE IN coupons[c].credits + SumCredits(S \ {c})

\* C7: a coupon is won by one user only: the ledger holds at most one row
\* for it, whoever redeems it after the winner is answered
\* COUPON_CODE_EXHAUSTED and leaves used_count = 1 and the single row, and
\* every balance is the sum of the credits of the coupons that user won.
C7_OneWinnerPerCoupon ==
    /\ \A c \in Codes : Cardinality(RowsWithKey(ledger, CouponKey(c))) <= 1
    /\ \A u \in Users : Balance(u) = SumCredits({c \in Codes : u \in Winners(c)})
    /\ (resp.endpoint = "redeem" /\ resp.coupon \in Codes) =>
          LET c == resp.coupon IN
          /\ resp.code = "OK" =>
                /\ Winners(c) = {resp.user}
                /\ coupons[c].used_count = 1
          /\ Winners(c) \ {resp.user} # {} =>
                /\ resp.http = 422 /\ resp.code = "COUPON_CODE_EXHAUSTED"
                /\ coupons[c].used_count = 1
                /\ Cardinality(RowsWithKey(ledger, CouponKey(c))) = 1

\* u1 won a coupon and u2, redeeming the same code, was just turned away.
C7_Witness ==
    /\ resp.endpoint = "redeem" /\ resp.user = "u2"
    /\ resp.code = "COUPON_CODE_EXHAUSTED"
    /\ resp.coupon \in Codes
    /\ Winners(resp.coupon) = {"u1"}
    /\ Balance("u1") = coupons[resp.coupon].credits /\ Balance("u2") = 0

\* The edges of the job state graph.
StatusEdges ==
    {<<JOB_STATUS_CREATED, JOB_STATUS_UPLOAD_READY>>,
     <<JOB_STATUS_UPLOAD_READY, JOB_STATUS_STEP1_RUNNING>>,
     <<JOB_STATUS_STEP1_RUNNING, JOB_STATUS_STEP1_READY>>,
     <<JOB_STATUS_STEP1_RUNNING, JOB_STATUS_UPLOAD_READY>>,
     <<JOB_STATUS_STEP1_RUNNING, JOB_STATUS_FAILED>>,
     <<JOB_STATUS_STEP1_READY, JOB_STATUS_STEP1_CONFIRMED>>,
     <<JOB_STATUS_STEP1_CONFIRMED, JOB_STATUS_STEP2_RUNNING>>,
     <<JOB_STATUS_STEP2_RUNNING, JOB_STATUS_STEP2_READY>>,
     <<JOB_STATUS_STEP2_RUNNING, JOB_STATUS_FAILED>>,
     <<JOB_STATUS_STEP2_READY, JOB_STATUS_STEP2_CONFIRMED>>}

\* What GET /jobs/{id} shows after the step.
ReportedNext(j) == get_job(jobs'[j], NULL)

\* C8: every change of the status GET /jobs/{id} reports is an edge of the
\* state graph, whichever of the HTTP handlers and the workers makes it.
C8_StatusChangesAreEdges ==
    [][\A j \in JobIds :
          (jobs[j].exists /\ Reported(j).status # ReportedNext(j).status)
              => <<Reported(j).status, ReportedNext(j).status>> \in StatusEdges]_vars

\* C9: a POST /step1/run for an UPLOAD_READY job whose owner has balance 0
\* never gets past the checks of the handler: it reaches neither
\* enqueue_task nor update_job.
C9_ZeroBalanceRunRejected ==
    \A r \in Reqs :
        (reqs[r].task_type = TASK_TYPE_STEP1 /\ reqs[r].zero_balance)
            => reqs[r].pc \notin {"enqueue", "update"}

\* C10: when execute_task has handled the failure of a STEP1 task for
\* insufficient credits, the task is FAILED and GET /jobs/{id} reports
\* UPLOAD_READY, progress 10 and an error with the insufficient-credits text.
C10_InsufficientCreditsReverts ==
    [][\A w \in Workers :
          (/\ workers[w].alive /\ workers[w].pc = "fail_job"
           /\ workers[w].task_type = TASK_TYPE_STEP1
           /\ workers[w].exc = INSUFFICIENT
           /\ workers'[w].alive /\ workers'[w].pc = "idle")
              => /\ queue'[workers[w].task_id].status = TASK_STATUS_FAILED
                 /\ ReportedNext(workers[w].job_id).status = JOB_STATUS_UPLOAD_READY
                 /\ ReportedNext(workers[w].job_id).progress = PROGRESS_UPLOAD_READY
                 /\ ReportedNext(workers[w].job_id).error.message = INSUFFICIENT]_vars

\* C11: when execute_task has handled the failure of a STEP1 or STEP2 task
\* whose exception is not the insufficient-credits one, GET /jobs/{id} reports
\* FAILED with the code INTERNAL_ERROR and the fixed neutral message, which is
\* not the exception text, and the task row is FAILED with error_message
\* equal to the exception text.
C11_StageFailureIsNeutral ==
    [][\A w \in Workers :
          (/\ workers[w].alive /\ workers[w].pc = "fail_job"
           /\ workers[w].exc # INSUFFICIENT
           /\ workers'[w].alive /\ workers'[w].pc = "idle")
              => /\ ReportedNext(workers[w].job_id).status = JOB_STATUS_FAILED
                 /\ ReportedNext(workers[w].job_id).error.code = "INTERNAL_ERROR"
                 /\ ReportedNext(workers[w].job_id).error.message = NEUTRAL_MESSAGE
                 /\ ReportedNext(workers[w].job_id).error.message # workers[w].exc
                 /\ queue'[workers[w].task_id].status = TASK_STATUS_FAILED
                 /\ queue'[workers[w].task_id].error_message = workers[w].exc]_vars

\* A STEP2 task failed in its stage driver: its row holds the raw text and
\* the job shows the neutral one.
C11_Witness ==
    \E t \in TaskIds :
        /\ queue[t].task_type = TASK_TYPE_STEP2
        /\ queue[t].status = TASK_STATUS_FAILED
        /\ queue[t].error_message = STAGE_ERROR
        /\ Reported(queue[t].job_id).status = JOB_STATUS_FAILED
        /\ Reported(queue[t].job_id).error = [code |-> "INTERNAL_ERROR", message |-> NEUTRAL_MESSAGE]
        /\ \A w \in Workers : workers[w].pc = "idle"

\* C12: a request to any /jobs/{id}/... endpoint by a user who does not own
\* the job is answered 404 NOT_FOUND, as is a request for a job id that does
\* not exist, and neither changes a job, the queue or the ledger.
C12_StrangerGetsNotFound ==
    [][\A u \in Users, j \in JobIds :
          ((~jobs[j].exists \/ jobs[j].owner_user_id # u) /\ JobRequest(u, j))
              => /\ resp' = [resp' EXCEPT !.http = 404, !.code = "NOT_FOUND"]
                 /\ resp'.user = u /\ resp'.job_id = j
                 /\ UNCHANGED <<jobs, queue, ledger>>]_vars

\* The stranger u2 was just answered 404 on PUT /step1/confirm of a job of
\* u1 that is STEP1_READY.
C12_Witness ==
    /\ resp.endpoint = "step1_confirm" /\ resp.user = "u2" /\ resp.http = 404
    /\ resp.job_id \in JobIds
    /\ jobs[resp.job_id].exists /\ jobs[resp.job_id].owner_user_id = "u1"
    /\ Reported(resp.job_id).status = JOB_STATUS_STEP1_READY

\* The request A of the owner u on job j, whose status is outside allowed, is
\* answered 409 INVALID_STEP_STATE and writes nothing.
Rejected(A, u, j, allowed) ==
    (jobs[j].exists /\ jobs[j].owner_user_id = u /\ Reported(j).status \notin allowed /\ A)
        => /\ resp' = [resp' EXCEPT !.http = 409, !.code = "INVALID_STEP_STATE"]
           /\ resp'.user = u /\ resp'.job_id = j
           /\ UNCHANGED <<jobs, queue, ledger>>

\* C13: an endpoint called on a job whose status is not in the endpoint's
\* required set answers 409 INVALID_STEP_STATE and leaves the job directory
\* (metadata, manifest, step data), the queue and the ledger unchanged.
C13_WrongStatusRejected ==
    [][\A u \in Users, j \in JobIds :
          /\ Rejected(Upload(u, j, "AUDIO"), u, j, {JOB_STATUS_CREATED})
          /\ Rejected(RunCheck("r1", u, j, TASK_TYPE_STEP1), u, j, {JOB_STATUS_UPLOAD_READY})
          /\ Rejected(Step1Get(u, j), u, j, STEP1_GET_ALLOWED_STATUSES)
          /\ Rejected(Step1Confirm(u, j), u, j, {JOB_STATUS_STEP1_READY})
          /\ Rejected(RunCheck("r1", u, j, TASK_TYPE_STEP2), u, j, {JOB_STATUS_STEP1_CONFIRMED})
          /\ Rejected(Step2Get(u, j), u, j, STEP2_GET_ALLOWED_STATUSES)
          /\ Rejected(Step2Confirm(u, j), u, j, {JOB_STATUS_STEP2_READY})
          /\ Rejected(RenderRun(u, j), u, j, {JOB_STATUS_STEP2_CONFIRMED})
          /\ Rejected(RenderConfig(u, j), u, j, RENDER_GET_ALLOWED_STATUSES)
          /\ Rejected(RenderSource(u, j), u, j, RENDER_GET_ALLOWED_STATUSES)
          /\ Rejected(\E should_cleanup \in BOOLEAN : RenderDownload(u, j, should_cleanup),
                      u, j, {JOB_STATUS_SUCCEEDED})]_vars

\* The owner was just answered 409 on POST /step2/run of a job that is
\* STEP1_READY, and on PUT /step2/confirm of a job that is STEP2_RUNNING.
C13_Witness ==
    /\ resp.http = 409 /\ resp.code = "INVALID_STEP_STATE" /\ resp.user = "u1"
    /\ resp.job_id \in JobIds
    /\ jobs[resp.job_id].owner_user_id = "u1"
    /\ \/ resp.endpoint = "step2_run" /\ Reported(resp.job_id).status = JOB_STATUS_STEP1_READY
       \/ resp.endpoint = "step2_confirm" /\ Reported(resp.job_id).status = JOB_STATUS_STEP2_RUNNING

\* C14: a redemption answered COUPON_CODE_INVALID, COUPON_CODE_EXPIRED or
\* COUPON_CODE_EXHAUSTED leaves every coupon row and the ledger as they were,
\* hence every balance, and leaves the status and activated_at of the caller
\* (as GET /me shows them) and every other user's row as they were.
C14_FailedRedeemChangesNothing ==
    [][\A u \in Users, raw \in RawCodes :
          (/\ Redeem(u, raw)
           /\ resp'.code \in {"COUPON_CODE_INVALID", "COUPON_CODE_EXPIRED", "COUPON_CODE_EXHAUSTED"})
              => /\ coupons' = coupons
                 /\ ledger' = ledger
                 /\ \A v \in Users : get_credit_balance(ledger', v) = get_credit_balance(ledger, v)
                 /\ get_user_profile(users', u) = get_user_profile(users, u)
                 /\ \A v \in Users \ {u} : users'[v] = users[v]]_vars

\* A user who holds credits was just turned away with an expired coupon that
\* is still unused and ACTIVE.
C14_Witness ==
    /\ resp.endpoint = "redeem" /\ resp.code = "COUPON_CODE_EXPIRED"
    /\ resp.coupon \in Codes
    /\ coupons[resp.coupon].used_count = 0 /\ coupons[resp.coupon].status = STATUS_ACTIVE
    /\ users[resp.user].status = USER_STATUS_ACTIVE
    /\ Balance(resp.user) = 1

\* C15: a user turns ACTIVE only in a step that also marks a coupon used and
\* appends that coupon's COUPON_REDEEM ledger row for the same user, and a
\* user who is ACTIVE is ACTIVE after every step.
C15_ActivationIsOneWay ==
    [][\A u \in Users :
          /\ (users[u].status # USER_STATUS_ACTIVE /\ users'[u].status = USER_STATUS_ACTIVE)
                => /\ Len(ledger') = Len(ledger) + 1
                   /\ ledger'[Len(ledger')].user_id = u
                   /\ ledger'[Len(ledger')].reason = "COUPON_REDEEM"
                   /\ \E c \in Codes :
                         /\ ledger'[Len(ledger')].idempotency_key = CouponKey(c)
                         /\ coupons[c].used_count = 0 /\ coupons'[c].used_count = 1
          /\ users[u].status = USER_STATUS_ACTIVE => users'[u].status = USER_STATUS_ACTIVE]_vars

\* u1 is ACTIVE and was just turned away with a used coupon, u2 has sent
\* requests and is still PENDING_COUPON.
C15_Witness ==
    /\ users["u1"].status = USER_STATUS_ACTIVE /\ users["u1"].activated_at > 0
    /\ resp.endpoint = "redeem" /\ resp.user = "u1" /\ resp.code = "COUPON_CODE_EXHAUSTED"
    /\ users["u2"].status = USER_STATUS_PENDING_COUPON

\* C16: whenever a step moves a task from QUEUED to RUNNING, no task with a
\* smaller task_id is QUEUED before the step.
C16_ClaimsSmallestQueued ==
    [][\A t \in TaskIds :
          (queue[t].status = TASK_STATUS_QUEUED /\ queue'[t].status = TASK_STATUS_RUNNING)
              => \A o \in 1..(t - 1) : queue[o].status # TASK_STATUS_QUEUED]_vars

\* Two tasks were QUEUED; the older one has been claimed and the newer one
\* still waits.
C16_Witness ==
    /\ Len(queue) = 2
    /\ queue[1].status = TASK_STATUS_RUNNING /\ claims[1] = 1
    /\ queue[2].status = TASK_STATUS_QUEUED /\ claims[2] = 0
    /\ \E w \in Workers : workers[w].alive /\ workers[w].pc = "idle"

\* The changes of status a queue row may make.
TaskEdges ==
    {<<TASK_STATUS_QUEUED, TASK_STATUS_RUNNING>>,
     <<TASK_STATUS_RUNNING, TASK_STATUS_SUCCEEDED>>,
     <<TASK_STATUS_RUNNING, TASK_STATUS_FAILED>>}

\* C17: a queue row changes status only from QUEUED to RUNNING and from
\* RUNNING to SUCCEEDED or FAILED; a row that is SUCCEEDED or FAILED keeps its
\* status in every step and no claim_next_task call returns it.
C17_TaskStatusOneWay ==
    [][\A t \in TaskIds :
          /\ queue'[t].status # queue[t].status
                => <<queue[t].status, queue'[t].status>> \in TaskEdges
          /\ Terminal(t) => /\ queue'[t].status = queue[t].status
                            /\ claims'[t] = claims[t]]_vars

\* One task has FAILED, a later one has SUCCEEDED, each was claimed once and
\* the workers are polling again.
C17_Witness ==
    /\ Len(queue) = 2
    /\ queue[1].status = TASK_STATUS_FAILED /\ queue[2].status = TASK_STATUS_SUCCEEDED
    /\ claims[1] = 1 /\ claims[2] = 1
    /\ \A w \in Workers : workers[w].pc = "idle"

\* C18: while the workers keep running and every stage function returns or
\* raises, every task that is QUEUED or RUNNING is eventually SUCCEEDED or
\* FAILED.
C18_EveryTaskFinishes ==
    \A t \in 1..MaxTasks :
        (t \in TaskIds /\ Live(t)) ~> (t \in TaskIds /\ Terminal(t))

\* STEP1 and STEP2 of one job have both been queued and have both finished.
C18_Witness ==
    /\ Len(queue) = 2
    /\ queue[1].job_id = queue[2].job_id
    /\ queue[1].task_type = TASK_TYPE_STEP1 /\ queue[2].task_type = TASK_TYPE_STEP2
    /\ Terminal(1) /\ Terminal(2)

\* C19: a job that GET /jobs/{id} reports FAILED is reported FAILED after
\* every step of every HTTP handler and every worker.
C19_FailedIsTerminal ==
    [][\A j \in JobIds :
          (jobs[j].exists /\ Reported(j).status = JOB_STATUS_FAILED)
              => ReportedNext(j).status = JOB_STATUS_FAILED]_vars

\* C20: cleanup removes the directory of a job only if the job's status is
\* SUCCEEDED or STEP2_CONFIRMED, the job has a declared artifact and its
\* updated_at lies at least cleanup_ttl_seconds in the past, in the periodic
\* sweep and in the cleanup at process startup alike.
C20_CleanupOnlyExpiredFinished ==
    [][\A j \in JobIds :
          jobs[j].exists /\ ~jobs'[j].exists
          => /\ jobs[j].status \in {JOB_STATUS_SUCCEEDED, JOB_STATUS_STEP2_CONFIRMED}
             /\ _has_artifacts(_normalize_files(jobs[j]))
             /\ jobs[j].updated_at = "EXPIRED"]_vars

\* C21: after cleanup_job_artifacts has run on an eligible job, the job still
\* exists and is reported SUCCEEDED with progress 100 and no error, every
\* manifest slot is null and its step 1 and step 2 data are empty.
C21_CleanedJobIsSucceeded ==
    [][CleanupExpired("w1") \/ AppStartup
       => \A j \in JobIds :
             CleanupCandidate(jobs[j]) /\ jobs'[j] # jobs[j]
             => /\ get_job(jobs'[j], NULL).found
                /\ get_job(jobs'[j], NULL).status = JOB_STATUS_SUCCEEDED
                /\ get_job(jobs'[j], NULL).progress = PROGRESS_SUCCEEDED
                /\ get_job(jobs'[j], NULL).error = NoError
                /\ ~_has_artifacts(_normalize_files(jobs'[j]))
                /\ ~jobs'[j].final_step1 /\ ~jobs'[j].final_topics]_vars

\* A download of job 1 that streams the file, with cleanup requested.
DownloadWithCleanup ==
    /\ get_job(jobs[1], "u1").status = JOB_STATUS_SUCCEEDED
    /\ _normalize_files(jobs[1]).final_video_path
    /\ RenderDownload("u1", 1, TRUE)

C23_CleanupTwiceIsNoOp ==
    \A j \in JobIds :
        LET cleaned == cleanup_job_artifacts(jobs[j]) IN
        /\ cleanup_job_artifacts(cleaned) = cleaned
        /\ cleanup_job_artifacts_removed(cleaned) = 0
        /\ j <= made /\ ~jobs[j].exists
           => /\ cleanup_job_artifacts(jobs[j]) = jobs[j]
              /\ cleanup_job_artifacts_removed(jobs[j]) = 0

\* Job 1 was created, confirmed and then cleaned by a sweep; its queue rows
\* are still there.
C23_Witness ==
    /\ made >= 1 /\ ~jobs[1].exists
    /\ \E t \in 1..Len(queue) : queue[t].job_id = 1 /\ queue[t].task_type = TASK_TYPE_STEP2

\* C24: whatever paths the manifest declares, cleanup skips every declared
\* path that resolves outside the work directory, every path it removes
\* resolves under the work directory, and no file or directory that lies
\* outside the work directory is deleted.  (A symbolic link that lies outside
\* and points into the work directory resolves under it and is unlinked.)
C24_CleanupStaysInWorkDir ==
    ret # <<>>
    => /\ \A path \in ret[1].removed : Located(resolve(path)) # "OUT"
       /\ \A field \in ARTIFACT_FIELDS :
             arg[field] # NoPath /\ path_exists(arg[field])
             /\ Located(resolve(arg[field])) = "OUT"
             => arg[field] \in ret[1].skipped /\ arg[field] \notin ret[1].removed
       /\ \A o \in ret[1].deleted : Kind(o) \in {"file", "dir"} => Located(o) # "OUT"

\* The manifest names the file outside the work directory through ".."
\* segments and through a link in the job directory; both were skipped and
\* the job directory is gone.
C24_Witness ==
    /\ ret # <<>>
    /\ arg["video_path"] = [via |-> "dotdot", obj |-> "secret"]
    /\ arg["final_video_path"] = [via |-> "plain", obj |-> "link_in"]
    /\ ret[1].skipped = {arg["video_path"], arg["final_video_path"]}
    /\ "jobdir" \in ret[1].deleted

RECURSIVE Flatten(_)
Flatten(seqs) == IF seqs = <<>> THEN <<>> ELSE Head(seqs) \o Flatten(Tail(seqs))

\* C25: the chapters run_step2 stores hold every kept step 1 line id exactly
\* once and no other id, in timeline order: read chapter after chapter, the
\* stored ids are the kept line ids in ascending order.
C25_ChaptersPartitionKeptLines ==
    ret # <<>> => Flatten(ret[1]) = arg.kept_line_ids

\* An upload of size bytes to job j that passes the status check.
UploadOf(j, size) ==
    /\ Reported(j).found /\ Reported(j).status = JOB_STATUS_CREATED
    /\ \E name \in {"AUDIO", "VIDEO"} : UploadFile("u1", j, name, size)

Refused(j, http, code) ==
    /\ resp'.endpoint = "upload" /\ resp'.http = http /\ resp'.code = code
    /\ jobs'[j].input = "NONE"
    /\ Reported(j)' = Reported(j)

\* C26: an upload of exactly MAX_UPLOAD_MB megabytes is accepted; one byte
\* more is refused with 413 UPLOAD_TOO_LARGE and an empty upload with 409
\* INVALID_STEP_STATE, and both refusals leave no file in the job directory
\* and the job's reported status as it was.
C26_UploadSizeLimit ==
    [][\A j \in JobIds :
          /\ UploadOf(j, max_bytes) =>
                /\ resp'.endpoint = "upload" /\ resp'.http = 200
                /\ jobs'[j].input # "NONE"
                /\ Reported(j)'.status = JOB_STATUS_UPLOAD_READY
          /\ UploadOf(j, max_bytes + 1) => Refused(j, 413, "UPLOAD_TOO_LARGE")
          /\ UploadOf(j, 0) => Refused(j, 409, "INVALID_STEP_STATE")]_vars

\* Job 1 was refused for its size, job 2 took a file of exactly the limit.
C26_Witness ==
    /\ resp.endpoint = "upload" /\ resp.http = 413 /\ resp.job_id = 1
    /\ Reported(1).status = JOB_STATUS_CREATED
    /\ Reported(2).status = JOB_STATUS_UPLOAD_READY

\* The lines of the chunk, once auto-edit has returned its subtitles.
Edited(idx) == ret # <<>> /\ ~ret[1].raised /\ idx \in 1..Len(arg.segments)
RemovedByRemovePass(idx) == remove_flags(arg.segments, arg.remove_text)[idx]
OptimizeAnswered(idx) == idx \in DOMAIN arg.optimize_text

\* C27: a line the remove pass removed stays removed whatever the optimize
\* pass returns for it: its subtitle starts with REMOVE_TOKEN and carries the
\* line's original text.
C27_RemovedLineStaysRemoved ==
    \A idx \in 1..MaxSegments :
        Edited(idx) /\ RemovedByRemovePass(idx)
            => ret[1].optimized_subs[idx] = Content(TRUE, arg.segments[idx])

C29_LongRewriteDiscarded ==
    \A idx \in 1..MaxSegments :
        (/\ Edited(idx) /\ ~RemovedByRemovePass(idx) /\ OptimizeAnswered(idx)
         /\ ~_is_remove_line(arg.optimize_text[idx]))
            => ret[1].optimized_subs[idx] =
                 IF text_len(arg.optimize_text[idx].text) > 3 * text_len(arg.segments[idx])
                 THEN Content(FALSE, arg.segments[idx])
                 ELSE arg.optimize_text[idx]

Step1Charged(j) ==
    \E row \in RowsWithKey(ledger, JobKey(j)) :
        row.delta = -1 /\ row.reason = "JOB_STEP1_SUCCESS"

\* C30: whenever GET /jobs/{id} reports STEP1_READY or a later status, the
\* ledger holds the job's -1 JOB_STEP1_SUCCESS entry.
C30_Step1ReadyIsCharged ==
    \A j \in JobIds :
        (/\ Reported(j).found
         /\ Reported(j).status \in {JOB_STATUS_STEP1_READY, JOB_STATUS_STEP1_CONFIRMED,
                                    JOB_STATUS_STEP2_RUNNING, JOB_STATUS_STEP2_READY,
                                    JOB_STATUS_STEP2_CONFIRMED, JOB_STATUS_SUCCEEDED})
            => Step1Charged(j)

ReportedRunning(j) ==
    Reported(j).found /\ Reported(j).status \in {JOB_STATUS_STEP1_RUNNING, JOB_STATUS_STEP2_RUNNING}

\* C31: a job that GET /jobs/{id} reports STEP1_RUNNING or STEP2_RUNNING is
\* eventually reported in another status, when the workers keep running, the
\* stage functions return and the handlers finish.
C31_RunningJobLeavesRunning ==
    \A j \in JobIds : ReportedRunning(j) ~> ~ReportedRunning(j)

\* C32: no two tasks of one job are RUNNING at the same time, and no STEP2
\* task is RUNNING while a STEP1 task of its job is QUEUED or RUNNING.
C32_OneRunningTaskPerJob ==
    \A t, o \in TaskIds :
        (t # o /\ queue[t].job_id = queue[o].job_id /\ queue[t].status = TASK_STATUS_RUNNING)
            => /\ queue[o].status # TASK_STATUS_RUNNING
               /\ queue[t].task_type = TASK_TYPE_STEP2 /\ queue[o].task_type = TASK_TYPE_STEP1
                     => queue[o].status # TASK_STATUS_QUEUED

\* The rules of infer_status in the order of the specification: the evidence
\* of rule i in directory d, and the status rule i gives.
RuleApplies(i, d) ==
    CASE i = 1 -> d.error # NoError
      [] i = 2 -> d.output_mp4
      [] i = 3 -> d.step2_confirmed
      [] i = 4 -> d.final_topics
      [] i = 5 -> d.step1_confirmed
      [] i = 6 -> d.final_step1
      [] i = 7 -> d.input # "NONE"
      [] i = 8 -> TRUE

RuleStatus(i) ==
    <<JOB_STATUS_FAILED, JOB_STATUS_SUCCEEDED, JOB_STATUS_STEP2_CONFIRMED,
      JOB_STATUS_STEP2_READY, JOB_STATUS_STEP1_CONFIRMED, JOB_STATUS_STEP1_READY,
      JOB_STATUS_UPLOAD_READY, JOB_STATUS_CREATED>>[i]

FirstRule(d) == Min({i \in 1..8 : RuleApplies(i, d)})

\* The directories that hold the evidence of d and one more piece of it.
WithMoreEvidence(d) ==
    {[d EXCEPT !.output_mp4 = TRUE], [d EXCEPT !.step2_confirmed = TRUE],
     [d EXCEPT !.final_topics = TRUE], [d EXCEPT !.step1_confirmed = TRUE],
     [d EXCEPT !.final_step1 = TRUE],
     [d EXCEPT !.input = IF @ = "NONE" THEN "VIDEO" ELSE @]}

\* C33: _infer_job_status returns the status of the first rule of the
\* specification's order that applies to the directory, and one more piece of
\* evidence in the directory never gives a status of a later rule.
C33_InferFollowsPrecedence ==
    ret # <<>> =>
        /\ ret[1].inferred_status = RuleStatus(FirstRule(arg))
        /\ \A d \in WithMoreEvidence(arg) :
              \E i \in 1..FirstRule(arg) : _infer_job_status(d) = RuleStatus(i)

\* A directory with final_step1.json and step2/.confirmed but neither
\* step1/.confirmed nor final_topics.json is inferred STEP2_CONFIRMED.
C33_Witness ==
    /\ ret # <<>>
    /\ arg.final_step1 /\ arg.step2_confirmed
    /\ ~arg.step1_confirmed /\ ~arg.final_topics /\ ~arg.output_mp4 /\ arg.error = NoError
    /\ ret[1].inferred_status = JOB_STATUS_STEP2_CONFIRMED

\* C34: get_job reports STEP1_RUNNING for metadata STEP1_RUNNING with CREATED
\* or UPLOAD_READY inferred, STEP2_RUNNING for metadata STEP2_RUNNING with
\* STEP1_CONFIRMED inferred, FAILED for metadata FAILED with any inferred
\* status other than SUCCEEDED and FAILED, and the inferred status otherwise.
C34_ReconciliationTable ==
    ret # <<>> =>
        LET meta_status == arg.status
            inferred_status == ret[1].inferred_status IN
        ret[1].job.status =
            IF /\ meta_status = JOB_STATUS_STEP1_RUNNING
               /\ inferred_status \in {JOB_STATUS_CREATED, JOB_STATUS_UPLOAD_READY}
            THEN JOB_STATUS_STEP1_RUNNING
            ELSE IF /\ meta_status = JOB_STATUS_STEP2_RUNNING
                    /\ inferred_status = JOB_STATUS_STEP1_CONFIRMED
            THEN JOB_STATUS_STEP2_RUNNING
            ELSE IF /\ meta_status = JOB_STATUS_FAILED
                    /\ inferred_status \notin {JOB_STATUS_SUCCEEDED, JOB_STATUS_FAILED}
            THEN JOB_STATUS_FAILED
            ELSE inferred_status

\* C35: the progress values the worker stores while run_step2 runs never
\* decrease and stay below PROGRESS_STEP2_READY, and a reported value below
\* the last stored one is not written.  (run_step1 stores no progress before
\* STEP1_READY, so nothing is stored during STEP1_RUNNING.)
C35_ProgressMonotonicBelowRung ==
    LET written == ret[1].written IN
    /\ \A i \in 1..Len(written) :
          /\ written[i] > PROGRESS_STEP2_RUNNING /\ written[i] < PROGRESS_STEP2_READY
          /\ i > 1 => written[i - 1] < written[i]
    /\ ret[1].last_progress = IF written = <<>> THEN PROGRESS_STEP2_RUNNING
                              ELSE written[Len(written)]

\* 68 was stored, then 61 was reported and not written, then 100 was
\* reported and 74 stored.
C35_Witness ==
    /\ arg = <<68, 61, 100>>
    /\ ret[1].calls = 3
    /\ ret[1].written = <<68, 74>>

\* C36: job.error.json exists for a job exactly when GET /jobs/{id} reports
\* FAILED, and GET /jobs/{id} returns an error exactly then.
C36_ErrorIffFailed ==
    \A j \in JobIds :
        jobs[j].exists =>
            /\ (jobs[j].error # NoError) <=> (Reported(j).status = JOB_STATUS_FAILED)
            /\ (Reported(j).error # NoError) <=> (Reported(j).status = JOB_STATUS_FAILED)

\* C37: PUT /jobs/{id}/step1/confirm keeps the line ids, their ascending
\* order and every line's start, end, original_text and ai_suggest_remove,
\* changes nothing of a line the request does not name, and a request that
\* names an unknown line id changes no line and leaves the job STEP1_READY.
C37_ConfirmChangesOnlyEdits ==
    ret # <<>> =>
        LET before == arg.existing
            after == ret[1].lines
            named == {arg.updates[i].line_id : i \in 1..Len(arg.updates)} IN
        /\ Len(after) = Len(before)
        /\ \A k \in 1..Len(before) :
              /\ after[k].line_id = before[k].line_id
              /\ after[k].start = before[k].start /\ after[k].end = before[k].end
              /\ after[k].original_text = before[k].original_text
              /\ after[k].ai_suggest_remove = before[k].ai_suggest_remove
              /\ before[k].line_id \notin named => after[k] = before[k]
              /\ k > 1 => after[k - 1].line_id < after[k].line_id
        /\ (\E id \in named : \A k \in 1..Len(before) : before[k].line_id # id) =>
              /\ after = before
              /\ ret[1].job.status = JOB_STATUS_STEP1_READY

\* Line 2 of two lines was edited and marked removed, line 1 was not named,
\* and the job is STEP1_CONFIRMED.
C37_Witness ==
    /\ ret # <<>>
    /\ Len(arg.existing) = 2
    /\ arg.updates = <<[line_id |-> 2, optimized_text |-> " REWRITE ", user_final_remove |-> TRUE]>>
    /\ arg.existing[2].optimized_text = "ORIGINAL" /\ ~arg.existing[2].user_final_remove
    /\ ret[1].lines[2].optimized_text = "REWRITE" /\ ret[1].lines[2].user_final_remove
    /\ ret[1].lines[1] = arg.existing[1]
    /\ ret[1].job.status = JOB_STATUS_STEP1_CONFIRMED

\* C38: build_step1_lines_from_srts sets ai_suggest_remove exactly when an
\* optimized subtitle exists for the line and its trimmed content is empty
\* or starts with REMOVE_TOKEN, sets user_final_remove to the same value,
\* gives a non-empty optimized_text to a line whose original_text is not
\* empty, and returns the lines by ascending line_id.
C38_Step1LinesFromSrts ==
    ret # <<>> =>
        LET lines == ret[1] IN
        \A n \in 1..Len(lines) :
            LET line_id == lines[n].line_id
                optimized_exists == line_id \in DOMAIN arg.optimized_by_index
                trimmed == strip_content(arg.optimized_by_index[line_id]) IN
            /\ lines[n].ai_suggest_remove <=>
                  (optimized_exists /\ (trimmed = EmptyContent \/ trimmed.remove_token))
            /\ lines[n].user_final_remove = lines[n].ai_suggest_remove
            /\ lines[n].original_text # "" => lines[n].optimized_text # ""
            /\ n > 1 => lines[n - 1].line_id < line_id

\* C39: an upload that is rejected, for its size, its emptiness, its
\* extension or by the media probe, leaves the status GET /jobs/{id} reports
\* as it was.
C39_RejectedUploadKeepsStatus ==
    [][\A j \in JobIds :
          (/\ Reported(j).found /\ Reported(j).status = JOB_STATUS_CREATED
           /\ \E name \in {"AUDIO", "VIDEO", "OTHER"}, size \in UploadSizes, probed \in BOOLEAN :
                 UploadProbed("u1", j, name, size, probed)
           /\ resp'.endpoint = "upload" /\ resp'.http # 200)
          => Reported(j)'.status = Reported(j).status]_vars

\* C40: outside --once mode no exception of the cleanup sweep, of
\* claim_next_task or of execute_task stops the worker loop, and every
\* QUEUED task is claimed.
C40_LoopSurvivesExceptions ==
    /\ [](~arg.once => workers["w1"].alive)
    /\ \A t \in 1..MaxTasks :
          (~arg.once /\ t <= Len(queue) /\ queue[t].status = TASK_STATUS_QUEUED)
             ~> (t <= Len(queue) /\ queue[t].status # TASK_STATUS_QUEUED)

\* The loop has caught one exception of each kind, the last while it executed
\* task 1, and has claimed task 2 after it.
C40_Witness ==
    /\ ~arg.once
    /\ ret = <<"periodic cleanup failed", "claim next task failed", "execute task failed">>
    /\ Len(queue) = 2 /\ queue[1].status = TASK_STATUS_RUNNING
    /\ workers["w1"].alive /\ workers["w1"].task_id = 2 /\ workers["w1"].pc = "s1_pipeline"

====
